---- MODULE Spec2Model ----
(***************************************************************************)
(* A model of the dimension cells (Dim), the axis-aligned array            *)
(* collections (AxisArrays) and the stacked dataset (AnnDataSet) of        *)
(* anndata-rs.                                                             *)
(*                                                                         *)
(* An Option<T> is a sequence of length at most one: <<>> is None and      *)
(* <<x>> is Some(x).  A shape is the pair <<shape[0], shape[1]>> (TLA+     *)
(* sequences start at 1, so shape[0] of the code is sh[1] here).           *)
(***************************************************************************)
EXTENDS Integers, Sequences, FiniteSets, TLC

VARIABLES
    dims,   \* Dim name -> Option<usize>: the shared Arc<Mutex<Option<usize>>> cells
    data,   \* collection -> (key -> Option<shape>): InnerAxisArrays.data; <<>> is a handle whose slot was cleared
    store,  \* collection -> (key -> shape): the backing objects under InnerAxisArrays.container
    last,   \* the last call made and what it returned
    thr,    \* the threads of the concurrent add_data scenario
    dset    \* the AnnDataSet scenario: its inputs, the dataset built and the last result

vars == <<dims, data, store, last, thr, dset>>

----------------------------------------------------------------------------
(* Bounds *)

MaxDim == 2

Sizes == 1..MaxDim
Shapes == Sizes \X Sizes

----------------------------------------------------------------------------
(* Option and function helpers *)

None == <<>>
Some(x) == <<x>>

\* f with key k bound to v (HashMap::insert)
Put(f, k, v) == [x \in (DOMAIN f) \cup {k} |-> IF x = k THEN v ELSE f[x]]

\* f without key k (HashMap::remove)
Del(f, k) == [x \in (DOMAIN f) \ {k} |-> f[x]]

EmptyMap == [x \in {} |-> <<>>]

----------------------------------------------------------------------------
(* Dim and DimLock *)

DimNames == {"n_obs", "n_vars"}

\* DimLock::get: 0 when the dimension is unset
DimLock_get(v) == IF v = None THEN 0 ELSE v[1]

\* A plausible slip: the check dropped, every value overwrites the cell
try_set_overwrite(v, n) == [ok |-> TRUE, val |-> Some(n)]

\* DimLock::try_set on a cell holding v: the result and the cell afterwards
try_set(v, n) ==
    IF v # None /\ v[1] # n
    THEN [ok |-> FALSE, val |-> v]
    ELSE [ok |-> TRUE, val |-> Some(n)]

\* A plausible slip: set that keeps the value of a Dim already set
DimLock_set_once(v, n) == IF v = None THEN Some(n) ELSE v

\* DimLock::set: unchecked
DimLock_set(v, n) == Some(n)

----------------------------------------------------------------------------
(* AxisArrays: three collections built by AxisArrays::new over two Dims *)

Colls == {"obsm", "obsp", "layers"}
Keys == {"A", "B"}

\* The keys the caller uses on each collection
KeysOf(c) == IF c = "obsm" THEN Keys ELSE {"A"}

axis(c) ==
    CASE c = "obsm" -> "Row"
      [] c = "obsp" -> "Pairwise"
      [] c = "layers" -> "RowColumn"

dim1(c) == "n_obs"
dim2(c) == "n_vars"

\* What is kept of a call: the operation, the collection (or Dim) it was made
\* on and what it returned
Call(op, c, res) == [op |-> op, c |-> c, res |-> res]

\* ArrayElem::clear on the handle h stored under key: the backing object is
\* deleted and the slot emptied; clearing an emptied slot changes nothing
Elem_clear(st, key, h) == IF h = None THEN st ELSE Del(st, key)

\* Slot::inner on an emptied slot panics
Slot_inner_panics(h) == h = None

\* The outcome of a call on collection c: the Dims, the collection's map and
\* backing group afterwards, and what the call returned
Outcome(ds, d, st, res) == [dims |-> ds, data |-> d, store |-> st, res |-> res]

\* A plausible slip: the Dims are set with the unchecked DimLock::set
add_data_check_unchecked(c, sh, ds) ==
    LET d1 == [ds EXCEPT ![dim1(c)] = DimLock_set(ds[dim1(c)], sh[1])]
    IN  CASE axis(c) = "Row" -> [ok |-> TRUE, dims |-> d1]
          [] axis(c) = "RowColumn" ->
               [ok |-> TRUE, dims |-> [d1 EXCEPT ![dim2(c)] = DimLock_set(d1[dim2(c)], sh[2])]]
          [] axis(c) = "Pairwise" ->
               IF sh[1] # sh[2]
               THEN [ok |-> FALSE, dims |-> ds]
               ELSE [ok |-> TRUE, dims |-> d1]

\* A plausible slip: the Pairwise arm forgets the square check
add_data_check_no_square(c, sh, ds) ==
    LET r1 == try_set(ds[dim1(c)], sh[1])
        d1 == [ds EXCEPT ![dim1(c)] = r1.val]
    IN  CASE axis(c) = "RowColumn" ->
               IF ~r1.ok
               THEN [ok |-> FALSE, dims |-> d1]
               ELSE LET r2 == try_set(d1[dim2(c)], sh[2])
                    IN  [ok |-> r2.ok, dims |-> [d1 EXCEPT ![dim2(c)] = r2.val]]
          [] OTHER -> [ok |-> r1.ok, dims |-> d1]

\* add_data, the match on self.axis: each try_set is applied as it is
\* reached, and `?` returns at the first failure
add_data_check(c, sh, ds) ==
    LET r1 == try_set(ds[dim1(c)], sh[1])
        d1 == [ds EXCEPT ![dim1(c)] = r1.val]
    IN  CASE axis(c) = "Row" -> [ok |-> r1.ok, dims |-> d1]
          [] axis(c) = "RowColumn" ->
               IF ~r1.ok
               THEN [ok |-> FALSE, dims |-> d1]
               ELSE LET r2 == try_set(d1[dim2(c)], sh[2])
                    IN  [ok |-> r2.ok, dims |-> [d1 EXCEPT ![dim2(c)] = r2.val]]
          [] axis(c) = "Pairwise" ->
               IF sh[1] # sh[2]
               THEN [ok |-> FALSE, dims |-> ds]
               ELSE [ok |-> r1.ok, dims |-> d1]

\* InnerAxisArrays::add_data
add_data(c, key, sh) ==
    LET v == add_data_check(c, sh, dims)
    IN  IF ~v.ok
        THEN Outcome(v.dims, data[c], store[c], "err")
        ELSE IF key \notin DOMAIN data[c]
        THEN \* data.write(&self.container, key), then insert
             Outcome(v.dims, Put(data[c], key, Some(sh)), Put(store[c], key, sh), "ok")
        ELSE IF Slot_inner_panics(data[c][key])
        THEN \* elem.inner() on a cleared handle
             Outcome(v.dims, data[c], store[c], "panic")
        ELSE \* elem.inner().save(data)
             Outcome(v.dims, Put(data[c], key, Some(sh)), Put(store[c], key, sh), "ok")

\* add_data_from_iter, the match on self.axis.  In the RowColumn arm
\* Result::and takes its argument by value, so dim2.try_set runs whether or
\* not dim1.try_set failed
add_data_from_iter_check(c, sh, ds) ==
    LET r1 == try_set(ds[dim1(c)], sh[1])
        d1 == [ds EXCEPT ![dim1(c)] = r1.val]
    IN  CASE axis(c) = "Row" -> [ok |-> r1.ok, dims |-> d1]
          [] axis(c) = "RowColumn" ->
               LET r2 == try_set(d1[dim2(c)], sh[2])
               IN  [ok |-> r1.ok /\ r2.ok, dims |-> [d1 EXCEPT ![dim2(c)] = r2.val]]
          [] axis(c) = "Pairwise" ->
               IF sh[1] # sh[2]
               THEN [ok |-> FALSE, dims |-> ds]
               ELSE [ok |-> r1.ok, dims |-> d1]

\* A plausible slip: the error arms forget elem.clear()
add_data_from_iter_no_cleanup(c, key, sh) ==
    LET old == data[c]
        had == key \in DOMAIN old
        d0 == IF had THEN [old EXCEPT ![key] = None] ELSE old
        s0 == IF had THEN Elem_clear(store[c], key, old[key]) ELSE store[c]
        s1 == Put(s0, key, sh)
        v == add_data_from_iter_check(c, sh, dims)
    IN  IF v.ok
        THEN Outcome(v.dims, Put(d0, key, Some(sh)), s1, "ok")
        ELSE Outcome(v.dims, d0, s1, "err")

\* InnerAxisArrays::add_data_from_iter.  The handle already stored under key
\* is cleared but stays in the map; the chunks are written under key; the new
\* handle is inserted only when the shape conforms, and cleared otherwise
add_data_from_iter(c, key, sh) ==
    LET old == data[c]
        had == key \in DOMAIN old
        d0 == IF had THEN [old EXCEPT ![key] = None] ELSE old
        s0 == IF had THEN Elem_clear(store[c], key, old[key]) ELSE store[c]
        s1 == Put(s0, key, sh)
        v == add_data_from_iter_check(c, sh, dims)
    IN  IF v.ok
        THEN Outcome(v.dims, Put(d0, key, Some(sh)), s1, "ok")
        ELSE Outcome(v.dims, d0, Elem_clear(s1, key, Some(sh)), "err")

\* InnerAxisArrays::remove_data
remove_data(c, key) ==
    IF key \in DOMAIN data[c]
    THEN Outcome(dims, Del(data[c], key), Elem_clear(store[c], key, data[c][key]), "ok")
    ELSE Outcome(dims, data[c], store[c], "ok")

----------------------------------------------------------------------------
(* Selections and subset *)

\* Index vectors of up to two indices below n
IdxVecs(n) ==
    {<<>>} \cup {<<i>> : i \in 0..(n - 1)}
           \cup {<<i, j>> : i \in 0..(n - 1), j \in 0..(n - 1)}

\* SelectInfoElem: the full selection or an index vector
SelElems == {[full |-> TRUE, idx |-> <<>>]}
            \cup {[full |-> FALSE, idx |-> v] : v \in IdxVecs(MaxDim)}

\* A selection: one SelectInfoElem per dimension selected on
Selections == {<<e>> : e \in SelElems} \cup {<<e, f>> : e \in SelElems, f \in SelElems}

FullSel == [full |-> TRUE, idx |-> <<>>]

\* SelectInfoElemBounds::new(sel, n).len()
SelLen(e, n) == IF e.full THEN n ELSE Len(e.idx)

\* Whether every index of the selection exists in an axis of length n
SelInBounds(e, n) == e.full \/ \A i \in 1..Len(e.idx) : e.idx[i] < n

\* The selection subset hands to one element, per dimension of the element
ElemSel(c, sel) ==
    CASE axis(c) = "Row" -> <<sel[1], [full |-> TRUE, idx |-> <<>>]>>
      [] axis(c) = "RowColumn" -> <<sel[1], sel[2]>>
      [] axis(c) = "Pairwise" -> <<sel[1], sel[1]>>

\* The shape of an element of shape sh after subset(es)
SubShape(sh, es) == <<SelLen(es[1], sh[1]), SelLen(es[2], sh[2])>>

\* The number of dimensions a selection must have for the axis kind
SelDims(c) == IF axis(c) = "RowColumn" THEN 2 ELSE 1

\* The selections the caller hands to subset on c: every selection of the
\* right number of dimensions, and one of the wrong number
SelectionsFor(c) ==
    {s \in Selections : Len(s) = SelDims(c)}
        \cup {IF SelDims(c) = 1 THEN <<FullSel, FullSel>> ELSE <<FullSel>>}

\* A plausible slip: Dim::lock in place of Dim::try_lock, the Dims set once
\* the holder has let go
subset_dims_try_forced(c, sel, ds, held) ==
    LET d1 == [ds EXCEPT ![dim1(c)] =
                   DimLock_set(ds[dim1(c)], SelLen(sel[1], DimLock_get(ds[dim1(c)])))]
    IN  IF axis(c) = "RowColumn"
        THEN [d1 EXCEPT ![dim2(c)] =
                  DimLock_set(d1[dim2(c)], SelLen(sel[2], DimLock_get(d1[dim2(c)])))]
        ELSE d1

\* The Dims after subset while other threads hold the locks of the Dims in
\* held: each Dim whose try_lock succeeds is set to the length of its
\* selection over the value DimLock::get returns, and the others are left
subset_dims_try(c, sel, ds, held) ==
    LET d1 == IF dim1(c) \in held THEN ds
              ELSE [ds EXCEPT ![dim1(c)] =
                       DimLock_set(ds[dim1(c)], SelLen(sel[1], DimLock_get(ds[dim1(c)])))]
    IN  IF axis(c) = "RowColumn" /\ dim2(c) \notin held
        THEN [d1 EXCEPT ![dim2(c)] =
                  DimLock_set(d1[dim2(c)], SelLen(sel[2], DimLock_get(d1[dim2(c)])))]
        ELSE d1

\* The Dims after subset when no other thread holds a lock
subset_dims(c, sel, ds) == subset_dims_try(c, sel, ds, {})

\* InnerAxisArrays::subset while other threads hold the locks of the Dims in
\* held: the set of outcomes.  The elements are visited in the map's
\* iteration order, which is unspecified; the first element whose slot is
\* empty (a panic) or whose axis the selection overruns (an error) ends the
\* call, the elements visited before it rewritten and the Dims untouched
subset_try(c, sel, held) ==
    IF Len(sel) # SelDims(c)
    THEN {Outcome(dims, data[c], store[c], "err")}
    ELSE
    LET es == ElemSel(c, sel)
        ks == DOMAIN data[c]
        bad == {k \in ks : \/ data[c][k] = None
                           \/ ~SelInBounds(es[1], data[c][k][1][1])
                           \/ ~SelInBounds(es[2], data[c][k][1][2])}
        rewrite(S) == [k \in ks |-> IF k \in S THEN Some(SubShape(data[c][k][1], es))
                                   ELSE data[c][k]]
        restore(S) == [k \in DOMAIN store[c] |->
                          IF k \in S THEN SubShape(store[c][k], es) ELSE store[c][k]]
    IN  IF bad = {}
        THEN {Outcome(subset_dims_try(c, sel, dims, held), rewrite(ks), restore(ks), "ok")}
        ELSE {Outcome(dims, rewrite(S), restore(S),
                      IF data[c][b] = None THEN "panic" ELSE "err") :
                 S \in SUBSET (ks \ bad), b \in bad}

\* InnerAxisArrays::subset when no other thread holds a lock
subset(c, sel) == subset_try(c, sel, {})

----------------------------------------------------------------------------
(* The calls a single caller makes on the collections and on the Dims *)

Apply(c, o, call) ==
    /\ dims' = o.dims
    /\ data' = [data EXCEPT ![c] = o.data]
    /\ store' = [store EXCEPT ![c] = o.store]
    /\ last' = call
    /\ UNCHANGED <<thr, dset>>

AddDataAt(c, key, sh) ==
    LET o == add_data(c, key, sh)
    IN  Apply(c, o, Call("add_data", c, o.res))

AddDataFromIterAt(c, key, sh) ==
    LET o == add_data_from_iter(c, key, sh)
    IN  Apply(c, o, Call("add_data_from_iter", c, o.res))

RemoveDataAt(c, key) ==
    LET o == remove_data(c, key)
    IN  Apply(c, o, Call("remove_data", c, o.res))

SubsetAt(c, sel) ==
    \E o \in subset(c, sel) : Apply(c, o, Call("subset", c, o.res))

AddData == \E c \in Colls, sh \in Shapes : \E key \in KeysOf(c) : AddDataAt(c, key, sh)

AddDataFromIter ==
    \E c \in Colls, sh \in Shapes : \E key \in KeysOf(c) : AddDataFromIterAt(c, key, sh)

RemoveData == \E c \in Colls : \E key \in KeysOf(c) : RemoveDataAt(c, key)

\* The calls of the subset scenario: one key per collection
AddDataA == \E c \in Colls, sh \in Shapes : AddDataAt(c, "A", sh)

AddDataFromIterA == \E c \in Colls, sh \in Shapes : AddDataFromIterAt(c, "A", sh)

RemoveDataA == \E c \in Colls : RemoveDataAt(c, "A")

Subset == \E c \in Colls : \E sel \in SelectionsFor(c) : SubsetAt(c, sel)

\* Dim::try_set called on a shared Dim by its owner
DimTrySetAt(d, n) ==
    LET r == try_set(dims[d], n)
    IN  /\ dims' = [dims EXCEPT ![d] = r.val]
        /\ last' = Call("try_set", d, IF r.ok THEN "ok" ELSE "err")
        /\ UNCHANGED <<data, store, thr, dset>>

DimTrySet == \E d \in DimNames, n \in Sizes : DimTrySetAt(d, n)

NoThreads == <<>>
NoDataset == [phase |-> "none"]

\* Dim::empty for both Dims, AxisArrays::new over empty groups
InitAxis ==
    /\ dims = [d \in DimNames |-> None]
    /\ data = [c \in Colls |-> EmptyMap]
    /\ store = [c \in Colls |-> EmptyMap]
    /\ last = Call("new", "-", "ok")
    /\ thr = NoThreads
    /\ dset = NoDataset

Next == AddData \/ AddDataFromIter \/ RemoveData \/ DimTrySet

NextSubset == AddDataA \/ AddDataFromIterA \/ RemoveDataA \/ Subset

\* add_data, add_data_from_iter, remove_data and try_set
Spec == InitAxis /\ [][Next]_vars

\* the AxisArrays calls, subset included
SpecSubset == InitAxis /\ [][NextSubset]_vars

----------------------------------------------------------------------------
(* Properties of Dim::try_set and of the AxisArrays calls *)

\* C1: try_set(n) returns Ok exactly when the Dim is unset or already holds
\* n, and the Dim then holds n; when it holds m # n the call is an error and
\* the Dim still holds m; a second try_set(n) returns what the first returned
\* and leaves the Dim as the first left it.
C1_TrySetContract ==
    [][\A d \in DimNames, n \in Sizes :
         DimTrySetAt(d, n) =>
            /\ (last'.res = "ok") <=> (dims[d] = None \/ dims[d] = Some(n))
            /\ last'.res \in {"ok", "err"}
            /\ last'.res = "ok" => dims'[d] = Some(n)
            /\ last'.res = "err" => dims'[d] = dims[d]
            /\ LET once == try_set(dims[d], n)
                    twice == try_set(once.val, n)
                IN  twice = once /\ once.val = dims'[d]]_vars

\* a try_set was rejected by a Dim that holds another value
C1_Witness ==
    /\ last.op = "try_set"
    /\ last.res = "err"
    /\ dims[last.c] # None

\* The Dims a collection holds
DimsOf(c) == IF axis(c) = "RowColumn" THEN {dim1(c), dim2(c)} ELSE {dim1(c)}

AxisContract(c, sh) ==
    CASE axis(c) = "Row" -> dims[dim1(c)] = Some(sh[1])
      [] axis(c) = "RowColumn" -> dims[dim1(c)] = Some(sh[1]) /\ dims[dim2(c)] = Some(sh[2])
      [] axis(c) = "Pairwise" -> sh[1] = sh[2] /\ dims[dim1(c)] = Some(sh[1])

\* C3: after any sequence of add_data, add_data_from_iter and remove_data
\* calls, failed ones included, every element a collection holds data for,
\* and every backing object of the collection, satisfies the axis contract
\* against the shared Dims.
C3_AxisContract ==
    \A c \in Colls :
        /\ \A k \in DOMAIN data[c] : data[c][k] # None => AxisContract(c, data[c][k][1])
        /\ \A k \in DOMAIN store[c] : AxisContract(c, store[c][k])

\* the three collections hold an element each and the last call failed
C3_Witness ==
    /\ last.res = "err"
    /\ last.op \in {"add_data", "add_data_from_iter"}
    /\ \A c \in Colls : "A" \in DOMAIN data[c] /\ data[c]["A"] # None

\* C4: on the Row collection with dim1 set to d, add_data with shape[0] # d is
\* an error that leaves the map, the backing group and the Dims as they were
\* (an absent key stays absent and has no backing object, the other keys are
\* unchanged, dim1 is still d), and add_data with shape[0] = d succeeds
\* whatever shape[1] is.
C4_RowAddData ==
    [][\A key \in Keys, sh \in Shapes :
         (dims["n_obs"] # None /\ AddDataAt("obsm", key, sh)) =>
            IF sh[1] # dims["n_obs"][1]
            THEN /\ last'.res = "err"
                 /\ data' = data
                 /\ store' = store
                 /\ dims' = dims
            ELSE last'.res = "ok"]_vars

\* C5: on the Pairwise collection a non-square array is an error of add_data
\* and of add_data_from_iter whatever dim1 holds, the key is not installed
\* and dim1 keeps its value; a square array of side s succeeds iff dim1 is
\* unset or holds s.
C5_PairwiseAdd ==
    [][\A key \in Keys, sh \in Shapes :
         (AddDataAt("obsp", key, sh) \/ AddDataFromIterAt("obsp", key, sh)) =>
            IF sh[1] # sh[2]
            THEN /\ last'.res = "err"
                 /\ dims' = dims
                 /\ key \in DOMAIN data'["obsp"] =>
                        /\ key \in DOMAIN data["obsp"]
                        /\ data'["obsp"][key] # Some(sh)
            ELSE (last'.res = "ok") <=>
                    (dims["n_obs"] = None \/ dims["n_obs"] = Some(sh[1]))]_vars

\* C6: when add_data_from_iter fails its shape validation, no backing object
\* exists under the key when the error is returned.
C6_FailedIterLeavesNoObject ==
    [][\A c \in Colls, key \in Keys, sh \in Shapes :
         (last' = Call("add_data_from_iter", c, "err") /\ AddDataFromIterAt(c, key, sh)) =>
            key \notin DOMAIN store'[c]]_vars

\* add_data_from_iter failed on the RowColumn collection and left nothing
\* under its key
C6_Witness ==
    /\ last = Call("add_data_from_iter", "layers", "err")
    /\ store["layers"] = EmptyMap
    /\ dims["n_vars"] # None

----------------------------------------------------------------------------
(* Two threads, each inside one add_data call on a collection of its own.   *)
(* A thread holds its collection for the whole call; each Dim::try_set      *)
(* takes and releases the Dim's mutex, so it is one step.                   *)

Threads == {1, 2}

\* The calls two threads make on two collections that share the unset n_obs,
\* with arrays that differ along it
RacingCalls ==
    {f \in [Threads -> [c : Colls, key : Keys, sh : Shapes, pc : {"dim1"}, res : {"-"}]] :
        /\ f[1].c # f[2].c
        /\ f[1].sh[1] # f[2].sh[1]
        /\ \A t \in Threads : f[t].key \in KeysOf(f[t].c)}

InitRace ==
    /\ dims \in {ds \in [DimNames -> {None} \cup {Some(n) : n \in Sizes}] : ds["n_obs"] = None}
    /\ data = [c \in Colls |-> EmptyMap]
    /\ store = [c \in Colls |-> EmptyMap]
    /\ last = Call("new", "-", "ok")
    /\ thr \in RacingCalls
    /\ dset = NoDataset

Returns(t, res) == thr' = [thr EXCEPT ![t].pc = "done", ![t].res = res]

Goto(t, pc) == thr' = [thr EXCEPT ![t].pc = pc]

\* A plausible slip: the result of dim1.try_set is dropped instead of
\* returned with `?`
AddDataDim1_unchecked(t) ==
    LET c == thr[t].c
        sh == thr[t].sh
        r == try_set(dims[dim1(c)], sh[1])
    IN  /\ thr[t].pc = "dim1"
        /\ IF axis(c) = "Pairwise" /\ sh[1] # sh[2]
           THEN Returns(t, "err") /\ UNCHANGED dims
           ELSE /\ dims' = [dims EXCEPT ![dim1(c)] = r.val]
                /\ IF axis(c) = "RowColumn" THEN Goto(t, "dim2") ELSE Goto(t, "write")
        /\ UNCHANGED <<data, store, last, dset>>

\* add_data up to and including dim1.try_set: the square check of the
\* Pairwise arm, then the first try_set of every arm
AddDataDim1(t) ==
    LET c == thr[t].c
        sh == thr[t].sh
        r == try_set(dims[dim1(c)], sh[1])
    IN  /\ thr[t].pc = "dim1"
        /\ IF axis(c) = "Pairwise" /\ sh[1] # sh[2]
           THEN Returns(t, "err") /\ UNCHANGED dims
           ELSE /\ dims' = [dims EXCEPT ![dim1(c)] = r.val]
                /\ IF ~r.ok THEN Returns(t, "err")
                   ELSE IF axis(c) = "RowColumn" THEN Goto(t, "dim2")
                   ELSE Goto(t, "write")
        /\ UNCHANGED <<data, store, last, dset>>

\* add_data, the RowColumn arm: dim2.try_set
AddDataDim2(t) ==
    LET c == thr[t].c
        r == try_set(dims[dim2(c)], thr[t].sh[2])
    IN  /\ thr[t].pc = "dim2"
        /\ dims' = [dims EXCEPT ![dim2(c)] = r.val]
        /\ IF r.ok THEN Goto(t, "write") ELSE Returns(t, "err")
        /\ UNCHANGED <<data, store, last, dset>>

\* add_data after the validation: write through and insert, or save
AddDataWrite(t) ==
    LET c == thr[t].c
        key == thr[t].key
        sh == thr[t].sh
    IN  /\ thr[t].pc = "write"
        /\ IF key \in DOMAIN data[c] /\ Slot_inner_panics(data[c][key])
           THEN Returns(t, "panic") /\ UNCHANGED <<data, store>>
           ELSE /\ data' = [data EXCEPT ![c] = Put(data[c], key, Some(sh))]
                /\ store' = [store EXCEPT ![c] = Put(store[c], key, sh)]
                /\ Returns(t, "ok")
        /\ UNCHANGED <<dims, last, dset>>

NextRace == \E t \in Threads : AddDataDim1(t) \/ AddDataDim2(t) \/ AddDataWrite(t)

SpecRace == InitRace /\ [][NextRace]_vars

Racing == thr # NoThreads

\* Whether the call of thread t passes add_data's validation when it runs
\* alone.  n_vars is only ever set by the RowColumn call itself, to its own
\* shape[1], so the test on n_vars gives the same answer in every state of
\* a run.
ValidAlone(t) ==
    CASE axis(thr[t].c) = "Row" -> TRUE
      [] axis(thr[t].c) = "Pairwise" -> thr[t].sh[1] = thr[t].sh[2]
      [] axis(thr[t].c) = "RowColumn" ->
           dims[dim2(thr[t].c)] \in {None, Some(thr[t].sh[2])}

AllDone == \A t \in Threads : thr[t].pc = "done"

\* A call that has returned an error has written no backing object and
\* installed no handle
LoserWritesNothing ==
    \A t \in Threads :
        thr[t].res = "err" =>
            /\ thr[t].key \notin DOMAIN store[thr[t].c]
            /\ thr[t].key \notin DOMAIN data[thr[t].c]

\* Exactly one call succeeded, the other returned an error, and the shared
\* Dim holds the winner's size
OneWinner ==
    \E w \in Threads :
        /\ thr[w].res = "ok"
        /\ \A t \in Threads \ {w} : thr[t].res = "err"
        /\ dims["n_obs"] = Some(thr[w].sh[1])

\* C7 as stated: in every interleaving exactly one of the two calls succeeds
\* and the other returns an error, the loser writes no backing object and
\* installs no handle, and the shared Dim ends holding the winner's size.
C7_OneWinner ==
    Racing => LoserWritesNothing /\ (AllDone => OneWinner)

\* C7 amended: the same, for two calls each of which passes the validation
\* when it runs alone (a square array for Pairwise, a shape[1] that dim2
\* accepts for RowColumn); whatever the calls, they never both succeed, and
\* a call that returns an error writes nothing.
C7_OneWinnerOfValidCalls ==
    Racing =>
        /\ LoserWritesNothing
        /\ ~(\A t \in Threads : thr[t].res = "ok")
        /\ (AllDone /\ \A t \in Threads : ValidAlone(t)) => OneWinner

\* the RowColumn call lost the race for n_obs to the Row call
C7_Witness ==
    /\ Racing
    /\ AllDone
    /\ \A t \in Threads : ValidAlone(t)
    /\ \E w \in Threads, l \in Threads :
          /\ thr[w].c = "obsm" /\ thr[w].res = "ok"
          /\ thr[l].c = "layers" /\ thr[l].res = "err"
          /\ dims["n_obs"] = Some(thr[w].sh[1])
          /\ thr[w].key \in DOMAIN store["obsm"]

----------------------------------------------------------------------------
(* AnnDataSet: the children handed to AnnDataSet::new *)

\* The keys the caller gives the children, one list per call of new
KeyLists == {<<>>, <<"a">>, <<"a", "b">>, <<"a", "a">>}

\* The file of the child at each position of the input
ChildFiles == <<"f1.h5ad", "f2.h5ad", "f3.h5ad">>

\* Names of variables (columns) and, per key, of observations (rows)
GeneNames == <<"g1", "g2", "g3", "g4">>
CellNames == [a |-> <<"a1", "a2", "a3", "a4">>, b |-> <<"b1", "b2", "b3", "b4">>]

Reverse(s) == [i \in 1..Len(s) |-> s[Len(s) + 1 - i]]

\* The var frame of a child with w variables: absent, or indexed by w names
\* in one of two orders
VarFrames(w) ==
    LET canon == SubSeq(GeneNames, 1, w)
    IN  {None, Some(canon), Some(IF w = 1 THEN <<GeneNames[2]>> ELSE Reverse(canon))}

\* The obs index of a child with n observations: absent, or n names
ObsIndexes(k, n) == {<<>>, SubSeq(CellNames[k], 1, n)}

\* An AnnData with an X of shape (n, w); its Dims hold n and w
Child(k, f, n, w, on, vf) ==
    [key |-> k, file |-> f, n_obs |-> Some(n), n_vars |-> Some(w),
     obs_names |-> on, var |-> vf, x |-> Some(<<n, w>>)]

\* The well-formed children with key k and file f: the frames agree with
\* the Dims
ChildrenAt(k, f) ==
    UNION {{Child(k, f, sh[1], sh[2], on, vf) : on \in ObsIndexes(k, sh[1]),
                                                vf \in VarFrames(sh[2])}
           : sh \in Shapes}

\* The lists of children under the keys ks, one child per key and position
ChildListsOf(ks) ==
    LET at(i) == ChildrenAt(ks[i], ChildFiles[i])
    IN  CASE Len(ks) = 0 -> {<<>>}
          [] Len(ks) = 1 -> {<<c>> : c \in at(1)}
          [] Len(ks) = 2 -> at(1) \X at(2)
          [] Len(ks) = 3 -> at(1) \X at(2) \X at(3)

----------------------------------------------------------------------------
(* AnnData, as far as AnnDataSet uses it *)

\* AnnData::n_obs, AnnData::n_vars
AnnData_n_obs(a) == DimLock_get(a.n_obs)
AnnData_n_vars(a) == DimLock_get(a.n_vars)

\* AnnData::var_names: the names of the var index, none when var is absent
AnnData_var_names(a) == IF a.var = None THEN <<>> ELSE a.var[1]

\* AnnData::new(filename, n_obs, n_vars): an empty AnnData whose Dims hold
\* n_obs and n_vars
AnnData_new(f, n, w) ==
    [file |-> f, n_obs |-> Some(n), n_vars |-> Some(w), obs_names |-> <<>>,
     obs |-> <<>>, var |-> None, uns |-> <<>>]

\* AnnData::add_uns("AnnDataSet", frame)
AnnData_add_uns(a, frame) == [ok |-> TRUE, val |-> [a EXCEPT !.uns = frame]]

\* AnnData::set_obs_names(index): n_obs.try_set(index.len())?, then the index
\* is stored
AnnData_set_obs_names(a, index) ==
    LET r == try_set(a.n_obs, Len(index))
    IN  IF r.ok THEN [ok |-> TRUE, val |-> [a EXCEPT !.n_obs = r.val, !.obs_names = index]]
        ELSE [ok |-> FALSE, val |-> a]

\* AnnData::set_obs(frame): n_obs.try_set(frame.height())?, then the columns
\* are stored; the frame here is its one column
AnnData_set_obs(a, column) ==
    LET r == try_set(a.n_obs, Len(column))
    IN  IF r.ok THEN [ok |-> TRUE, val |-> [a EXCEPT !.n_obs = r.val, !.obs = column]]
        ELSE [ok |-> FALSE, val |-> a]

\* AnnData::set_var_names(index): n_vars.try_set(index.len())?, then the
\* index is stored
AnnData_set_var_names(a, index) ==
    LET r == try_set(a.n_vars, Len(index))
    IN  IF r.ok THEN [ok |-> TRUE, val |-> [a EXCEPT !.n_vars = r.val, !.var = Some(index)]]
        ELSE [ok |-> FALSE, val |-> a]

----------------------------------------------------------------------------
(* StackedAnnData and AnnDataSet::new *)

RECURSIVE IndexMap_collect(_)
\* IndexMap::from_iter: an item whose key is already in the map replaces the
\* value under that key and keeps the key's position
IndexMap_collect(items) ==
    IF items = <<>> THEN <<>>
    ELSE LET front == IndexMap_collect(SubSeq(items, 1, Len(items) - 1))
             e == items[Len(items)]
         IN  IF \E i \in 1..Len(front) : front[i].key = e.key
             THEN [i \in 1..Len(front) |-> IF front[i].key = e.key THEN e ELSE front[i]]
             ELSE Append(front, e)

RECURSIVE SumOver(_)
SumOver(ns) == IF ns = <<>> THEN 0 ELSE ns[1] + SumOver(Tail(ns))

RECURSIVE Flatten(_)
Flatten(ss) == IF ss = <<>> THEN <<>> ELSE ss[1] \o Flatten(Tail(ss))

\* vec![x; n]
Repeat(x, n) == [i \in 1..n |-> x]

Digits == <<"0", "1", "2", "3", "4", "5", "6", "7", "8", "9">>

RECURSIVE to_string(_)
\* usize::to_string
to_string(i) ==
    IF i < 10 THEN Digits[i + 1] ELSE to_string(i \div 10) \o Digits[(i % 10) + 1]

\* StackedArrayElem::new: the X handles of the children and the VecVecIndex
\* over their row counts; an error when the second dimensions differ
StackedArrayElem_new(xs) ==
    IF \E i \in 1..Len(xs) : xs[i][1][2] # xs[1][1][2]
    THEN [ok |-> FALSE, val |-> <<>>]
    ELSE [ok |-> TRUE,
          val |-> [elems |-> xs, index |-> [i \in 1..Len(xs) |-> xs[i][1][1]]]]

NoStack == [elems |-> <<>>, n_obs |-> 0, n_vars |-> 0, x |-> <<>>, stacked_obs |-> FALSE]

StackedAnnData_new(iter) ==
    LET adatas == IndexMap_collect(iter)
        x == StackedArrayElem_new([i \in 1..Len(adatas) |-> adatas[i].x])
    IN  IF adatas = <<>>
        THEN [ok |-> FALSE, err |-> "no AnnData objects to stack", val |-> NoStack]
        ELSE IF \E i \in 2..Len(adatas) : adatas[i].var # adatas[1].var
        THEN [ok |-> FALSE, err |-> "var names mismatch", val |-> NoStack]
        ELSE IF ~x.ok
        THEN [ok |-> FALSE, err |-> "shape mismatch", val |-> NoStack]
        ELSE [ok |-> TRUE, err |-> "",
              val |-> [elems |-> adatas,
                       n_obs |-> SumOver([i \in 1..Len(adatas) |-> AnnData_n_obs(adatas[i])]),
                       n_vars |-> AnnData_n_vars(adatas[1]),
                       x |-> x.val,
                       stacked_obs |-> \A i \in 1..Len(adatas) : adatas[i].obs_names # <<>>]]

NoAnnotation == AnnData_new("", 0, 0)

AnnDataSet_new(children, filename, add_key) ==
    LET st == StackedAnnData_new(children)
        anndatas == st.val
        elems == anndatas.elems
        a0 == AnnData_new(filename, anndatas.n_obs, anndatas.n_vars)
        a1 == AnnData_add_uns(a0, [i \in 1..Len(elems) |-> <<elems[i].key, elems[i].file>>])
        obs_names == Flatten([i \in 1..Len(elems) |-> elems[i].obs_names])
        a2 == IF obs_names = <<>>
              THEN AnnData_set_obs_names(a1.val, [i \in 1..anndatas.n_obs |-> to_string(i - 1)])
              ELSE AnnData_set_obs_names(a1.val, obs_names)
        keys == Flatten([i \in 1..Len(elems) |-> Repeat(elems[i].key, AnnData_n_obs(elems[i]))])
        a3 == AnnData_set_obs(a2.val, keys)
        a4 == IF AnnData_var_names(elems[1]) # <<>>
              THEN AnnData_set_var_names(a3.val, AnnData_var_names(elems[1]))
              ELSE [ok |-> TRUE, val |-> a3.val]
        fail(e) == [ok |-> FALSE, err |-> e, annotation |-> NoAnnotation, anndatas |-> NoStack]
    IN  IF ~st.ok THEN fail(st.err)
        ELSE IF ~a2.ok THEN fail("dimension mismatch")
        ELSE IF ~a3.ok THEN fail("dimension mismatch")
        ELSE IF ~a4.ok THEN fail("dimension mismatch")
        ELSE [ok |-> TRUE, err |-> "", annotation |-> a4.val, anndatas |-> anndatas]

----------------------------------------------------------------------------
(* AnnDataOp for AnnDataSet *)

\* What a call on the dataset returns and the dataset it leaves
Returned(res, err, val, anndatas, annotation) ==
    [res |-> res, err |-> err, val |-> val, anndatas |-> anndatas, annotation |-> annotation]

\* The rows of the partitions of a stacked X, in partition order
StackedRows(x) ==
    Flatten([i \in 1..Len(x.elems) |-> [r \in 1..x.elems[i][1][1] |-> <<i, r - 1>>]])

\* StackedArrayElem::data: the partitions stacked vertically; a partition
\* whose slot is empty cannot be read
StackedArrayElem_data(x) ==
    IF \E i \in 1..Len(x.elems) : Slot_inner_panics(x.elems[i])
    THEN [ok |-> FALSE, val |-> None]
    ELSE [ok |-> TRUE, val |-> Some([rows |-> StackedRows(x), width |-> x.elems[1][1][2]])]

\* StackedArrayElem::select: the rows the first selection picks, in the order
\* it picks them, over the columns the second selection picks
StackedArrayElem_select(x, sel) ==
    IF \E i \in 1..Len(x.elems) : Slot_inner_panics(x.elems[i])
    THEN [ok |-> FALSE, val |-> None]
    ELSE LET all == StackedRows(x)
             w == x.elems[1][1][2]
         IN  [ok |-> TRUE,
              val |-> Some([rows |-> IF sel[1].full THEN all
                                     ELSE [j \in 1..Len(sel[1].idx) |-> all[sel[1].idx[j] + 1]],
                            width |-> SelLen(sel[2], w)])]

read_x(ds) ==
    LET r == StackedArrayElem_data(ds.anndatas.x)
    IN  IF r.ok THEN Returned("ok", "", Some(r.val[1]), ds.anndatas, ds.annotation)
        ELSE Returned("err", "read", None, ds.anndatas, ds.annotation)

read_x_slice(ds, select) ==
    LET r == StackedArrayElem_select(ds.anndatas.x, select)
    IN  IF r.ok THEN Returned("ok", "", Some(r.val[1]), ds.anndatas, ds.annotation)
        ELSE Returned("err", "read", None, ds.anndatas, ds.annotation)

set_x(ds, sh) == Returned("err", "cannot set X in AnnDataSet", None, ds.anndatas, ds.annotation)

\* A plausible slip: del_x removes the X of every child
del_x_clears(ds) ==
    Returned("ok", "", None,
             [ds.anndatas EXCEPT !.x.elems = [i \in 1..Len(ds.anndatas.x.elems) |-> None]],
             ds.annotation)

del_x(ds) == Returned("err", "cannot delete X in AnnDataSet", None, ds.anndatas, ds.annotation)

n_obs(ds) == ds.anndatas.n_obs

n_vars(ds) == ds.anndatas.n_vars

\* A plausible slip: var_names refused on a dataset, as X is
set_var_names_refused(ds, index) ==
    Returned("err", "cannot set var_names in AnnDataSet", None, ds.anndatas, ds.annotation)

set_var_names(ds, index) ==
    LET r == AnnData_set_var_names(ds.annotation, index)
    IN  IF r.ok THEN Returned("ok", "", None, ds.anndatas, r.val)
        ELSE Returned("err", "dimension mismatch", None, ds.anndatas, ds.annotation)

\* The indexes handed to set_var_names: up to MaxDim names in either order
VarIndexes ==
    {<<>>} \cup UNION {{SubSeq(GeneNames, 1, w), Reverse(SubSeq(GeneNames, 1, w))} : w \in Sizes}

\* The selections handed to read_x_slice on a stacked X of n rows: two
\* SelectInfoElems whose indices exist
SlicesOf(n) ==
    {<<r, c>> : r \in {FullSel, [full |-> FALSE, idx |-> <<n - 1>>],
                       [full |-> FALSE, idx |-> <<n - 1, 0>>]},
                c \in {FullSel, [full |-> FALSE, idx |-> <<0>>]}}

----------------------------------------------------------------------------
(* The dataset scenario: new over some children, then calls on the dataset *)

DatasetFile == "set.h5ads"
AddKey == "batch"

InitDataset ==
    /\ dims = [d \in DimNames |-> None]
    /\ data = [c \in Colls |-> EmptyMap]
    /\ store = [c \in Colls |-> EmptyMap]
    /\ last = Call("none", "none", "ok")
    /\ thr = NoThreads
    /\ \E ks \in KeyLists :
          dset \in {[phase |-> "input", children |-> cs, anndatas |-> NoStack,
                     annotation |-> NoAnnotation,
                     ret |-> [op |-> "none", res |-> "ok", err |-> "", val |-> None]]
                    : cs \in ChildListsOf(ks)}

\* AnnDataSet::new(children, DatasetFile, AddKey)
New ==
    /\ dset.phase = "input"
    /\ LET r == AnnDataSet_new(dset.children, DatasetFile, AddKey)
       IN  dset' = [dset EXCEPT !.phase = IF r.ok THEN "built" ELSE "failed",
                                !.anndatas = r.anndatas,
                                !.annotation = r.annotation,
                                !.ret = [op |-> "new", res |-> IF r.ok THEN "ok" ELSE "err",
                                         err |-> r.err, val |-> None]]
    /\ UNCHANGED <<dims, data, store, last, thr>>

\* The dataset after a call that returned r
Called(op, r) ==
    /\ dset' = [dset EXCEPT !.anndatas = r.anndatas,
                            !.annotation = r.annotation,
                            !.ret = [op |-> op, res |-> r.res, err |-> r.err, val |-> r.val]]
    /\ UNCHANGED <<dims, data, store, last, thr>>

SetXAt(sh) == dset.phase = "built" /\ Called("set_x", set_x(dset, sh))

DelXAt == dset.phase = "built" /\ Called("del_x", del_x(dset))

ReadXAt == dset.phase = "built" /\ Called("read_x", read_x(dset))

ReadXSliceAt(select) == dset.phase = "built" /\ Called("read_x_slice", read_x_slice(dset, select))

SetVarNamesAt(index) == dset.phase = "built" /\ Called("set_var_names", set_var_names(dset, index))

SetX == \E sh \in Shapes : SetXAt(sh)

DelX == DelXAt

ReadX == ReadXAt

ReadXSlice == \E select \in SlicesOf(n_obs(dset)) : ReadXSliceAt(select)

SetVarNames == \E index \in VarIndexes : SetVarNamesAt(index)

NextDataset == New \/ SetX \/ DelX \/ ReadX \/ ReadXSlice \/ SetVarNames

\* AnnDataSet::new and the calls on the dataset it built
SpecDataset == InitDataset /\ [][NextDataset]_vars

----------------------------------------------------------------------------
(* Properties of AnnDataSet *)

\* The errors that say a call is not supported on a dataset
UnsupportedOnDataset ==
    {"cannot set X in AnnDataSet", "cannot delete X in AnnDataSet",
     "cannot set var_names in AnnDataSet"}

\* C8: on an AnnDataSet, set_x and del_x return an error for every argument
\* and in every state and leave the stacked X, the children and the
\* annotation as they were; read_x and read_x_slice then still return
\* Some(stacked data), the data they returned before the call.
C8_SetXDelXFail ==
    [][(SetX \/ DelX) =>
          /\ dset'.ret.res = "err"
          /\ dset'.ret.err \in UnsupportedOnDataset
          /\ dset'.anndatas = dset.anndatas
          /\ dset'.annotation = dset.annotation
          /\ dset'.children = dset.children
          /\ read_x(dset').res = "ok"
          /\ read_x(dset').val # None
          /\ read_x(dset').val = read_x(dset).val
          /\ Len(read_x(dset').val[1].rows) = n_obs(dset)
          /\ \A select \in SlicesOf(n_obs(dset)) :
                /\ read_x_slice(dset', select).res = "ok"
                /\ read_x_slice(dset', select).val # None
                /\ read_x_slice(dset', select).val = read_x_slice(dset, select).val]_vars

\* del_x has failed on a dataset stacked from two children
C8_Witness ==
    /\ dset.phase = "built"
    /\ dset.ret.op = "del_x"
    /\ dset.ret.res = "err"
    /\ Len(dset.anndatas.elems) = 2
    /\ read_x(dset).val # None

\* C9 as stated: set_var_names on an AnnDataSet fails with the
\* UnsupportedOnDataset error and leaves the annotation's var_names unchanged.
C9_SetVarNamesUnsupported ==
    [][SetVarNames =>
          /\ dset'.ret.res = "err"
          /\ dset'.ret.err \in UnsupportedOnDataset
          /\ AnnData_var_names(dset'.annotation) = AnnData_var_names(dset.annotation)]_vars

\* C9 as the code has it: set_var_names on an AnnDataSet is the annotation's
\* set_var_names.  With as many names as the annotation's n_vars it succeeds
\* and the annotation's var_names become the index given; with any other
\* number of names it fails with the Dim's mismatch error, never
\* UnsupportedOnDataset, and the annotation is as it was.  Either way the
\* children and the dataset's n_vars are untouched.
C9_SetVarNamesDelegates ==
    [][\A index \in VarIndexes :
          SetVarNamesAt(index) =>
             /\ IF Len(index) = AnnData_n_vars(dset.annotation)
                THEN /\ dset'.ret.res = "ok"
                     /\ AnnData_var_names(dset'.annotation) = index
                     /\ dset'.annotation = [dset.annotation EXCEPT !.var = Some(index)]
                ELSE /\ dset'.ret.res = "err"
                     /\ dset'.ret.err \notin UnsupportedOnDataset
                     /\ dset'.annotation = dset.annotation
             /\ dset'.anndatas = dset.anndatas
             /\ n_vars(dset') = n_vars(dset)]_vars

\* set_var_names has succeeded and the annotation's names are no longer the
\* first child's
C9_Witness ==
    /\ dset.phase = "built"
    /\ dset.ret.op = "set_var_names"
    /\ dset.ret.res = "ok"
    /\ dset.annotation.var # dset.anndatas.elems[1].var

\* What C10 says new builds: the sum of the children's n_obs, the first
\* child's n_vars, and the label column
NewStacksChildren(cs) ==
    LET total == SumOver([i \in 1..Len(cs) |-> AnnData_n_obs(cs[i])])
    IN  /\ n_obs(dset) = total
        /\ AnnData_n_obs(dset.annotation) = total
        /\ n_vars(dset) = AnnData_n_vars(cs[1])
        /\ AnnData_n_vars(dset.annotation) = AnnData_n_vars(cs[1])
        /\ dset.annotation.obs =
              Flatten([i \in 1..Len(cs) |-> Repeat(cs[i].key, AnnData_n_obs(cs[i]))])

\* C10: after AnnDataSet.new over children (k_1, a_1) ... (k_P, a_P), n_obs
\* of the dataset and of its annotation is the sum of the children's n_obs,
\* n_vars is the first child's n_vars, and the annotation's obs column
\* add_key is k_1 repeated n_obs(a_1) times, then k_2 repeated n_obs(a_2)
\* times, and so on in child order.
C10_NewStacksChildren ==
    dset.phase = "built" => NewStacksChildren(dset.children)

DistinctKeys(cs) == \A i, j \in 1..Len(cs) : cs[i].key = cs[j].key => i = j

\* The same over children whose keys are pairwise distinct
NewStacksDistinctChildren ==
    (dset.phase = "built" /\ DistinctKeys(dset.children)) => NewStacksChildren(dset.children)

\* new has built a dataset from two children with distinct keys
NewOverTwoChildren ==
    /\ dset.phase = "built"
    /\ Len(dset.children) = 2
    /\ DistinctKeys(dset.children)

\* The obs_names C11 says new gives the annotation over the children cs
NewObsNames(cs) ==
    IF \E i \in 1..Len(cs) : cs[i].obs_names = <<>>
    THEN [j \in 1..SumOver([i \in 1..Len(cs) |-> AnnData_n_obs(cs[i])]) |-> to_string(j - 1)]
    ELSE Flatten([i \in 1..Len(cs) |-> cs[i].obs_names])

\* C11: AnnDataSet.new sets the annotation's obs_names to the concatenation
\* of the children's obs_names in child order, or to "0", "1", ...,
\* "n_obs-1" if any child has empty obs_names, and the annotation ends with
\* exactly n_obs obs_names.  Stated over children with pairwise distinct keys
\* that StackedAnnData::new accepts.
C11_NewObsNames ==
    (/\ dset.ret.op = "new"
     /\ DistinctKeys(dset.children)
     /\ StackedAnnData_new(dset.children).ok) =>
        /\ dset.phase = "built"
        /\ dset.annotation.obs_names = NewObsNames(dset.children)
        /\ Len(dset.annotation.obs_names) = n_obs(dset)

\* Every child named, or no child named
UniformlyNamed(cs) ==
    \/ \A i \in 1..Len(cs) : cs[i].obs_names # <<>>
    \/ \A i \in 1..Len(cs) : cs[i].obs_names = <<>>

\* The same where the children are all named or all unnamed
NewObsNamesUniform ==
    (/\ dset.ret.op = "new"
     /\ DistinctKeys(dset.children)
     /\ UniformlyNamed(dset.children)
     /\ StackedAnnData_new(dset.children).ok) =>
        /\ dset.phase = "built"
        /\ dset.annotation.obs_names = NewObsNames(dset.children)
        /\ Len(dset.annotation.obs_names) = n_obs(dset)

\* new fails exactly on the accepted stacks that mix named and unnamed
\* children
NewFailsOnMixedNames ==
    (dset.ret.op = "new" /\ StackedAnnData_new(dset.children).ok) =>
        (dset.phase = "failed" <=>
            ~UniformlyNamed(StackedAnnData_new(dset.children).val.elems))

\* Some child's var_names differ from the first child's
VarNamesDiffer(cs) ==
    \E i \in 1..Len(cs) : AnnData_var_names(cs[i]) # AnnData_var_names(cs[1])

\* C12: StackedAnnData.new, and hence AnnDataSet.new, returns an error when
\* the input has no children or when some child's var_names differ from the
\* first child's in content or order; every dataset built has children that
\* all share the same var_names in the same order.
C12_VarNamesChecked ==
    /\ (dset.phase # "input" /\ (dset.children = <<>> \/ VarNamesDiffer(dset.children))) =>
          /\ dset.phase = "failed"
          /\ ~StackedAnnData_new(dset.children).ok
    /\ dset.phase = "built" => ~VarNamesDiffer(dset.anndatas.elems)

\* The same where the keys of the children are pairwise distinct
VarNamesCheckedDistinct ==
    DistinctKeys(dset.children) => C12_VarNamesChecked

----------------------------------------------------------------------------
(* AnnDataSet::open: an annotation file whose uns["AnnDataSet"] lists the
   children, the child files on disk, and the overrides given by the caller *)

\* Where the annotation file lies
AnnotationFile == "/d/_dataset.h5ads"

\* The files a child may lie in
Locations == {"/d/f1.h5ad", "/d/f2.h5ad", "/d/f3.h5ad"}

\* The paths uns["AnnDataSet"] may store and the caller may give
StoredPaths == {"f1.h5ad", "/d/f2.h5ad", "f3.h5ad"}
OverridePaths == {"/d/f2.h5ad", "f3.h5ad"}

\* The directories write_select is given, and the paths it makes of the
\* absolute one
OutputDirs == {"out", "/tmp/out"}
AbsolutePaths == Locations \cup {"/tmp/out", "/tmp/out/anndatas"}

\* Path::is_absolute
is_absolute(path) == path \in AbsolutePaths

\* file_path.parent().join(path), the annotation file lying in /d
JoinParent(path) ==
    CASE path = "f1.h5ad" -> "/d/f1.h5ad"
      [] path = "f3.h5ad" -> "/d/f3.h5ad"
      [] OTHER -> path

\* The file open reads a child from, given the path in use for it
ResolvePath(path) == IF is_absolute(path) THEN path ELSE JoinParent(path)

\* The uns["AnnDataSet"] frames an annotation file may hold: rows of
\* <<key, file_path>>, the keys being those of an IndexMap
StoredFrames ==
    {<<<<"a", p>>>> : p \in StoredPaths}
        \cup {<<<<k[1], p>>, <<k[2], q>>>> : k \in {<<"a", "b">>, <<"b", "a">>},
                                             p \in StoredPaths, q \in StoredPaths}

\* The override maps: HashMap<String, String>
OverrideKeys == {"a", "b", "c"}
OverrideMaps ==
    UNION {[ks -> OverridePaths] : ks \in SUBSET OverrideKeys}

\* A child file: an AnnData of one observation and one variable, with or
\* without a var frame; or no file at all
ChildFileContents == {None} \cup {Some(vf) : vf \in VarFrames(1)}

\* AnnData::open of the child file at loc, under key k
AnnData_open(k, loc, content) == Child(k, loc, 1, 1, <<>>, content[1])

\* A plausible slip: the rows whose key has no override are dropped
update_anndata_locations_matching(uns, new_locations) ==
    LET matching == SelectSeq(uns, LAMBDA row : row[1] \in DOMAIN new_locations)
    IN  [i \in 1..Len(matching) |-> <<matching[i][1], new_locations[matching[i][1]]>>]

\* update_anndata_locations: the frame written back to uns["AnnDataSet"]
update_anndata_locations(uns, new_locations) ==
    [i \in 1..Len(uns) |->
        <<uns[i][1],
          IF uns[i][1] \in DOMAIN new_locations THEN new_locations[uns[i][1]] ELSE uns[i][2]>>]

\* AnnDataSet::open(file, adata_files_): the result, the uns frame the
\* annotation file holds afterwards, how often it was written, and the file
\* each child was opened from
AnnDataSet_open(uns_, disk, adata_files_) ==
    LET fail(e, u, w) == [ok |-> FALSE, err |-> e, uns |-> u, written |-> w,
                          opened |-> <<>>, anndatas |-> NoStack]
    IN  IF uns_ = None THEN fail("key 'AnnDataSet' is not present", uns_, 0)
        ELSE
        LET df == uns_[1]
            adata_files == IF adata_files_ = None THEN EmptyMap ELSE adata_files_[1]
            path(i) == IF df[i][1] \in DOMAIN adata_files THEN adata_files[df[i][1]]
                       ELSE df[i][2]
            opened == [i \in 1..Len(df) |-> <<df[i][1], ResolvePath(path(i))>>]
            anndatas == [i \in 1..Len(df) |->
                            AnnData_open(df[i][1], opened[i][2], disk[opened[i][2]])]
            rewrite == DOMAIN adata_files # {}
            uns1 == IF rewrite THEN Some(update_anndata_locations(df, adata_files)) ELSE uns_
            written == IF rewrite THEN 1 ELSE 0
            st == StackedAnnData_new(anndatas)
        IN  IF \E i \in 1..Len(df) : disk[opened[i][2]] = None
            THEN fail("cannot open file", uns_, 0)
            ELSE IF ~st.ok THEN fail(st.err, uns1, written)
            ELSE [ok |-> TRUE, err |-> "", uns |-> uns1, written |-> written,
                  opened |-> opened, anndatas |-> st.val]

InitOpen ==
    /\ dims = [d \in DimNames |-> None]
    /\ data = [c \in Colls |-> EmptyMap]
    /\ store = [c \in Colls |-> EmptyMap]
    /\ last = Call("none", "none", "ok")
    /\ thr = NoThreads
    /\ dset \in {[phase |-> "stored", uns |-> u, disk |-> d, adata_files |-> o,
                  written |-> 0, opened |-> <<>>, anndatas |-> NoStack,
                  ret |-> [op |-> "none", res |-> "ok", err |-> "", val |-> None]]
                 : u \in {None} \cup {Some(f) : f \in StoredFrames},
                   d \in [Locations -> ChildFileContents],
                   o \in {None} \cup {Some(f) : f \in OverrideMaps}}

\* AnnDataSet::open(AnnotationFile, adata_files)
Open ==
    /\ dset.phase = "stored"
    /\ LET r == AnnDataSet_open(dset.uns, dset.disk, dset.adata_files)
       IN  dset' = [dset EXCEPT !.phase = IF r.ok THEN "opened" ELSE "open_failed",
                                !.uns = r.uns,
                                !.written = r.written,
                                !.opened = r.opened,
                                !.anndatas = r.anndatas,
                                !.ret = [op |-> "open", res |-> IF r.ok THEN "ok" ELSE "err",
                                         err |-> r.err, val |-> None]]
    /\ UNCHANGED <<dims, data, store, last, thr>>

NextOpen == Open

\* AnnDataSet::open over every stored frame, disk and override map
SpecOpen == InitOpen /\ [][NextOpen]_vars

\* The path open is to use for the child in row i of the stored frame
PathInUse(i) ==
    LET k == dset.uns[1][i][1]
    IN  IF dset.adata_files # None /\ k \in DOMAIN dset.adata_files[1]
        THEN dset.adata_files[1][k]
        ELSE dset.uns[1][i][2]

\* C13: AnnDataSet.open with a non-empty override map opens each child k
\* from override[k] when k is an override key and from the stored path
\* otherwise, and writes uns["AnnDataSet"] back with the same keys in the same
\* order, file_path[k] = override[k] for the matching keys and the stored
\* path for all others; with no overrides (None or an empty map) the frame is
\* not rewritten.
C13_OpenOverrides ==
    [][Open =>
        /\ dset'.ret.res = "ok" =>
              /\ Len(dset'.opened) = Len(dset.uns[1])
              /\ \A i \in 1..Len(dset.uns[1]) :
                    dset'.opened[i] = <<dset.uns[1][i][1], ResolvePath(PathInUse(i))>>
        /\ (dset'.ret.res = "ok" /\ dset.adata_files # None /\ DOMAIN dset.adata_files[1] # {}) =>
              /\ dset'.written = 1
              /\ Len(dset'.uns[1]) = Len(dset.uns[1])
              /\ \A i \in 1..Len(dset.uns[1]) :
                    dset'.uns[1][i] = <<dset.uns[1][i][1], PathInUse(i)>>
        /\ (dset.adata_files = None \/ DOMAIN dset.adata_files[1] = {}) =>
              /\ dset'.written = 0
              /\ dset'.uns = dset.uns]_vars

\* open has succeeded with an override for one of two children and for a key
\* the dataset does not have, and the frame was written back
C13_Witness ==
    /\ dset.phase = "opened"
    /\ dset.written = 1
    /\ Len(dset.uns[1]) = 2
    /\ DOMAIN dset.adata_files[1] = {"b", "c"}
    /\ dset.uns[1][1][1] = "a"
    /\ dset.uns[1][2] = <<"b", dset.adata_files[1]["b"]>>
    /\ dset.opened[2][2] = ResolvePath(dset.adata_files[1]["b"])

----------------------------------------------------------------------------
(* VecVecIndex: the row counts of the partitions of a stacked array, and the
   split of a selection of global rows into selections local to each
   partition.  Partitions and rows are numbered from 0, as in the code. *)

\* The longest index vector handed to split_select
MaxSelLen == 3

\* The partition sizes split_select is applied over
PartitionSizes ==
    {<<1>>, <<2>>, <<1, 1>>, <<1, 2>>, <<2, 1>>, <<2, 2>>, <<1, 1, 1>>, <<3, 2, 4>>}

\* SelectInfoElem: a contiguous range [start, end) or a vector of indices
Slice(a, b) == [kind |-> "slice", start |-> a, end |-> b, idx |-> <<>>]
Index(v) == [kind |-> "index", start |-> 0, end |-> 0, idx |-> v]

\* BoundedSelectInfoElem::to_vec and ::len
to_vec(e) ==
    IF e.kind = "slice" THEN [j \in 1..(e.end - e.start) |-> e.start + j - 1] ELSE e.idx
BoundedLen(e) == Len(to_vec(e))

\* The number of rows in all partitions
TotalLen(sizes) == SumOver(sizes)

\* s_p: the number of rows in the partitions before partition p, p in 0..P
Offset(sizes, p) == SumOver(SubSeq(sizes, 1, p))

\* A plausible slip: the global row handed back as the local one
locate_global(sizes, g) ==
    LET p == CHOOSE q \in 0..Len(sizes) :
                 /\ Offset(sizes, q) <= g
                 /\ \A r \in 0..Len(sizes) : Offset(sizes, r) <= g => r <= q
    IN  <<p, g>>

\* locate(g) = (p, g - s_p), p the largest index with s_p <= g
locate(sizes, g) ==
    LET p == CHOOSE q \in 0..Len(sizes) :
                 /\ Offset(sizes, q) <= g
                 /\ \A r \in 0..Len(sizes) : Offset(sizes, r) <= g => r <= q
    IN  <<p, g - Offset(sizes, p)>>

\* The selections of rows out of n: every range and every index vector of up
\* to MaxSelLen indices
RowSelections(n) ==
    {s \in {Slice(a, b) : a \in 0..n, b \in 0..n} : s.start <= s.end}
        \cup UNION {{Index(v) : v \in [1..k -> 0..(n - 1)]} : k \in 0..MaxSelLen}

\* split_select of a range: one slice per partition from that of the start
\* to that of the end, and no mapping
split_slice(sizes, a, b) ==
    LET first == locate(sizes, a)
        last_ == locate(sizes, b)
        p0 == first[1]
        p1 == last_[1]
    IN  [slices |-> [p \in p0..p1 |->
                        IF p0 = p1 THEN Slice(first[2], last_[2])
                        ELSE IF p = p0 THEN Slice(first[2], sizes[p + 1])
                        ELSE IF p = p1 THEN Slice(0, last_[2])
                        ELSE Slice(0, sizes[p + 1])],
         mapping |-> None]

\* A plausible slip: the mapping gives each output row its position in the
\* selection instead of giving each position its output row
split_indices_inverse(sizes, v) ==
    LET at(i) == locate(sizes, v[i])
        in(p) == SelectSeq([i \in 1..Len(v) |-> i], LAMBDA i : at(i)[1] = p)
        hit == {at(i)[1] : i \in 1..Len(v)}
    IN  [slices |-> [p \in hit |-> Index([j \in 1..Len(in(p)) |-> at(in(p)[j])[2]])],
         mapping |-> Some(LET order == Flatten([q \in 1..Len(sizes) |-> in(q - 1)])
                          IN  [j \in 1..Len(v) |-> order[j] - 1])]

\* split_select of an index vector: each index goes, in the order of the
\* vector, to the builder of its partition; m[i] is the row of the
\* concatenation, in partition order, that index i ends up in
split_indices(sizes, v) ==
    LET at(i) == locate(sizes, v[i])
        in(p) == SelectSeq([i \in 1..Len(v) |-> i], LAMBDA i : at(i)[1] = p)
        hit == {at(i)[1] : i \in 1..Len(v)}
        before(p) == Cardinality({i \in 1..Len(v) : at(i)[1] < p})
        within(i) == Cardinality({j \in 1..i : at(j)[1] = at(i)[1]}) - 1
    IN  [slices |-> [p \in hit |-> Index([j \in 1..Len(in(p)) |-> at(in(p)[j])[2]])],
         mapping |-> Some([i \in 1..Len(v) |-> before(at(i)[1]) + within(i)])]

\* VecVecIndex::split_select
split_select(sizes, sel) ==
    IF sel.kind = "slice" THEN split_slice(sizes, sel.start, sel.end)
    ELSE split_indices(sizes, sel.idx)

\* A plausible slip: the mapping returned as it is
reverse_mapping_same(mapping, n) == mapping

\* reverse_mapping: res[x] = i for every (i, x) of the mapping, each x below
\* n; the entries no x reaches stay 0
reverse_mapping(mapping, n) ==
    [j \in 1..n |->
        IF \E i \in 1..Len(mapping) : mapping[i] = j - 1
        THEN (CHOOSE i \in 1..Len(mapping) :
                 /\ mapping[i] = j - 1
                 /\ \A k \in 1..Len(mapping) : mapping[k] = j - 1 => k <= i) - 1
        ELSE 0]

\* The global rows the partitions hand back for their local selections,
\* concatenated in partition order
SplitResult(sizes, slices) ==
    Flatten([q \in 1..Len(sizes) |->
                IF (q - 1) \in DOMAIN slices
                THEN [j \in 1..BoundedLen(slices[q - 1]) |->
                         Offset(sizes, q - 1) + to_vec(slices[q - 1])[j]]
                ELSE <<>>])

----------------------------------------------------------------------------
(* split_select and reverse_mapping applied to every selection *)

InitSplit ==
    /\ dims = [d \in DimNames |-> None]
    /\ data = [c \in Colls |-> EmptyMap]
    /\ store = [c \in Colls |-> EmptyMap]
    /\ last = Call("none", "none", "ok")
    /\ thr = NoThreads
    /\ \E sizes \in PartitionSizes :
          dset \in {[phase |-> "args", sizes |-> sizes, sel |-> sel,
                     slices |-> <<>>, mapping |-> None, order |-> None]
                    : sel \in RowSelections(TotalLen(sizes))}

\* index.split_select(&slice[0])
SplitSelect ==
    /\ dset.phase = "args"
    /\ LET r == split_select(dset.sizes, dset.sel)
       IN  dset' = [dset EXCEPT !.phase = "split", !.slices = r.slices,
                                !.mapping = r.mapping]
    /\ UNCHANGED <<dims, data, store, last, thr>>

\* mapping.map(|x| reverse_mapping(x, len)), len the rows selected in all
\* partitions
ReverseMapping ==
    /\ dset.phase = "split"
    /\ dset' = [dset EXCEPT
                   !.phase = "ordered",
                   !.order = IF dset.mapping = None THEN None
                             ELSE Some(reverse_mapping(dset.mapping[1],
                                                       Len(SplitResult(dset.sizes, dset.slices))))]
    /\ UNCHANGED <<dims, data, store, last, thr>>

NextSplit == SplitSelect \/ ReverseMapping

\* split_select, then reverse_mapping, over every selection
SpecSplit == InitSplit /\ [][NextSplit]_vars

\* C16: for every vector of partition sizes and every 1-D selection,
\* split_select returns no reordering map when the selection is a contiguous
\* range; for an index vector sel it returns local selections per partition
\* and a map m of length |sel| such that, result being the concatenation in
\* partition order of the rows the partitions select, result[m[i]] is global
\* row sel[i] for every i.
C16_SplitSelect ==
    dset.phase = "split" =>
        LET result == SplitResult(dset.sizes, dset.slices)
        IN  IF dset.sel.kind = "slice"
            THEN /\ dset.mapping = None
                 /\ result = to_vec(dset.sel)
            ELSE /\ dset.mapping # None
                 /\ Len(dset.mapping[1]) = Len(dset.sel.idx)
                 /\ Len(result) = Len(dset.sel.idx)
                 /\ \A p \in DOMAIN dset.slices :
                       /\ p < Len(dset.sizes)
                       /\ \A j \in 1..Len(dset.slices[p].idx) :
                             dset.slices[p].idx[j] < dset.sizes[p + 1]
                 /\ \A i \in 1..Len(dset.sel.idx) :
                       /\ dset.mapping[1][i] \in 0..(Len(result) - 1)
                       /\ result[dset.mapping[1][i] + 1] = dset.sel.idx[i]

\* an index vector whose rows come back in another order, neither the
\* identity nor a swap, has been split
C16_Witness ==
    /\ dset.phase = "split"
    /\ dset.sel = Index(<<1, 2, 0>>)
    /\ dset.sizes = <<1, 2>>
    /\ dset.mapping = Some(<<1, 2, 0>>)
    /\ SplitResult(dset.sizes, dset.slices) = <<0, 1, 2>>

\* The selection of scenario S3 has been split
SplitOfS3 ==
    /\ dset.phase = "split"
    /\ dset.sizes = <<3, 2, 4>>
    /\ dset.sel = Index(<<7, 0, 4>>)

\* Each index of S3 is alone in the local selection of its partition, as
\* the local index locate(g) = (p, g - s_p) gives
LocalsOfS3 ==
    \A i \in 1..3 :
        LET at == locate(dset.sizes, dset.sel.idx[i])
        IN  /\ at[2] = dset.sel.idx[i] - Offset(dset.sizes, at[1])
            /\ dset.slices[at[1]] = Index(<<at[2]>>)

\* C17 as stated: over partition sizes [3, 2, 4], split_select of [7, 0, 4]
\* yields [3] for partition 2, [0] for partition 0 and [1] for partition 1,
\* with mapping m = [0, 1, 2], the local indices being those of locate.
C17_ExampleIdentity ==
    SplitOfS3 =>
        /\ dset.slices = (2 :> Index(<<3>>) @@ 0 :> Index(<<0>>) @@ 1 :> Index(<<1>>))
        /\ dset.mapping = Some(<<0, 1, 2>>)
        /\ LocalsOfS3

\* C17 as the split has it: the offsets of the partitions are 0, 3 and 5,
\* so locate(7) = (2, 2), locate(0) = (0, 0) and locate(4) = (1, 1): the
\* local selections are [2] for partition 2, [0] for partition 0 and [1] for
\* partition 1.  The partitions concatenated in the order (0, 1, 2) give the
\* rows (0, 4, 7), so the mapping is m = [2, 0, 1]: row 7 lands in row 2,
\* row 0 in row 0, row 4 in row 1.
C17_ExampleMapping ==
    SplitOfS3 =>
        /\ dset.slices = (2 :> Index(<<2>>) @@ 0 :> Index(<<0>>) @@ 1 :> Index(<<1>>))
        /\ LocalsOfS3
        /\ dset.mapping = Some(<<2, 0, 1>>)
        /\ SplitResult(dset.sizes, dset.slices) = <<0, 4, 7>>

\* the selection of S3 has been split over its three partitions
C17_Witness ==
    /\ SplitOfS3
    /\ dset.mapping = Some(<<2, 0, 1>>)
    /\ DOMAIN dset.slices = {0, 1, 2}
    /\ dset.slices[2] = Index(<<2>>)

----------------------------------------------------------------------------
(* AnnDataSet::write_select *)

\* The keys of the children of the datasets written, in child order
StackKeys == <<"a", "b", "c">>

\* The row counts of the children of the datasets written
DatasetSizes ==
    {<<1>>, <<2>>, <<1, 1>>, <<1, 2>>, <<2, 1>>, <<2, 2>>, <<3, 2>>, <<1, 1, 1>>}

\* The dataset new builds over children of the given row counts, each of two
\* variables
DatasetOver(sizes) ==
    AnnDataSet_new([i \in 1..Len(sizes) |->
                       Child(StackKeys[i], ChildFiles[i], sizes[i], 2, <<>>, None)],
                   DatasetFile, AddKey)

\* Path::join
Path_join(a, b) == a \o "/" \o b

\* What AnnData::write_select stores in a file: the rows, as rows of the
\* whole dataset, and the columns selected; uns["AnnDataSet"] is added later
Written(rows, cols) == [rows |-> rows, cols |-> cols, uns |-> None]

\* The files StackedAnnData::write_select leaves and what it returns, sp
\* being what split_select returned: every child that sp gives a local
\* selection writes its projection to dir/<key><suffix>.  The children whose
\* key is in failing fail to write; the writes run in parallel and stop at
\* an error, so that of the other children those in done have written
write_children(anndatas, sp, cols, dir, suffix, failing, done) ==
    LET index == anndatas.x.index
        elems == anndatas.elems
        chosen == {i \in 1..Len(elems) : (i - 1) \in DOMAIN sp.slices}
        failed == {i \in chosen : elems[i].key \in failing}
        written == IF failed = {} THEN chosen ELSE (chosen \ failed) \cap done
        rows(i) == LET local == to_vec(sp.slices[i - 1])
                       first == Offset(index, i - 1)
                   IN  [j \in 1..Len(local) |-> first + local[j]]
        fs == [f \in {Path_join(dir, elems[i].key \o suffix) : i \in written} |->
                  LET i == CHOOSE k \in written : Path_join(dir, elems[k].key \o suffix) = f
                  IN  Written(rows(i), cols)]
        len == SumOver([i \in 1..Len(index) |->
                           IF (i - 1) \in DOMAIN sp.slices
                           THEN BoundedLen(sp.slices[i - 1]) ELSE 0])
        order == IF sp.mapping = None THEN None
                 ELSE Some(reverse_mapping(sp.mapping[1], len))
        names == SelectSeq([i \in 1..Len(elems) |-> i], LAMBDA i : i \in chosen)
    IN  IF failed # {}
        THEN [ok |-> FALSE, err |-> "write", files |-> <<>>, order |-> None, fs |-> fs,
              written |-> written]
        ELSE [ok |-> TRUE, err |-> "",
              files |-> [j \in 1..Len(names) |->
                            <<elems[names[j]].key, elems[names[j]].key \o suffix>>],
              order |-> order, fs |-> fs, written |-> written]

\* StackedAnnData::write_select
StackedAnnData_write_select(anndatas, selection, dir, suffix, failing, done) ==
    IF Len(selection) # 2
    THEN [ok |-> FALSE, err |-> "selection must be 2D", files |-> <<>>, order |-> None,
          fs |-> EmptyMap, written |-> {}]
    ELSE write_children(anndatas, split_select(anndatas.x.index, selection[1]),
                        to_vec(selection[2]), dir, suffix, failing, done)

\* A plausible slip: every file_path joined to the directory of the children
write_annotation_joined(st, selection, file, anndata_dir) ==
    LET adata == [Written(to_vec(selection[1]), to_vec(selection[2])) EXCEPT
                     !.uns = Some([j \in 1..Len(st.files) |->
                                      <<st.files[j][1],
                                        Path_join(anndata_dir, st.files[j][2])>>])]
    IN  IF ~st.ok
        THEN [ok |-> FALSE, err |-> st.err, order |-> None, fs |-> st.fs,
              written |-> st.written]
        ELSE [ok |-> TRUE, err |-> "", order |-> st.order, fs |-> Put(st.fs, file, adata),
              written |-> st.written]

\* A plausible slip: the annotation written before the error of the children
\* is looked at
write_annotation_first(st, selection, file, anndata_dir) ==
    [ok |-> st.ok, err |-> st.err, order |-> st.order, written |-> st.written,
     fs |-> IF Len(selection) # 2 THEN st.fs
            ELSE Put(st.fs, file, [Written(to_vec(selection[1]), to_vec(selection[2])) EXCEPT
                                      !.uns = Some(<<>>)])]

\* The annotation file AnnDataSet::write_select adds to the files st.fs of
\* the children, st being what StackedAnnData::write_select returned
write_annotation(st, selection, file, anndata_dir) ==
    LET idx == to_vec(selection[1])
        rows == IF st.order # None
                THEN to_vec(Index([j \in 1..Len(st.order[1]) |-> idx[st.order[1][j] + 1]]))
                ELSE idx
        parent_dir == IF is_absolute(anndata_dir) THEN anndata_dir ELSE "anndatas"
        file_loc == [j \in 1..Len(st.files) |->
                        <<st.files[j][1], Path_join(parent_dir, st.files[j][2])>>]
        adata == [Written(rows, to_vec(selection[2])) EXCEPT !.uns = Some(file_loc)]
    IN  IF ~st.ok
        THEN [ok |-> FALSE, err |-> st.err, order |-> None, fs |-> st.fs,
              written |-> st.written]
        ELSE [ok |-> TRUE, err |-> "", order |-> st.order, fs |-> Put(st.fs, file, adata),
              written |-> st.written]

\* AnnDataSet::write_select(selection, dir): the order returned and the files
\* on disk under dir afterwards
AnnDataSet_write_select(ds, selection, dir, failing, done) ==
    LET anndata_dir == Path_join(dir, "anndatas")
        st == StackedAnnData_write_select(ds.anndatas, selection, anndata_dir, ".h5ad",
                                          failing, done)
    IN  write_annotation(st, selection, Path_join(dir, "_dataset.h5ads"), anndata_dir)

\* The selections handed to write_select on a dataset of n rows and w
\* columns: two SelectInfoElems whose indices exist, and one selection of a
\* single SelectInfoElem
WriteSelections(n, w) ==
    {<<r, c>> : r \in RowSelections(n), c \in {Slice(0, w), Index(<<w - 1>>)}}
        \cup {<<Slice(0, n)>>}

NotWritten ==
    [selection |-> <<>>, dir |-> "", order |-> None, fs |-> EmptyMap, written |-> {}]

InitWriteSelect ==
    /\ dims = [d \in DimNames |-> None]
    /\ data = [c \in Colls |-> EmptyMap]
    /\ store = [c \in Colls |-> EmptyMap]
    /\ last = Call("none", "none", "ok")
    /\ thr = NoThreads
    /\ \E sizes \in DatasetSizes :
          LET r == DatasetOver(sizes)
          IN  dset = [phase |-> "built", anndatas |-> r.anndatas, annotation |-> r.annotation,
                      out |-> NotWritten,
                      ret |-> [op |-> "new", res |-> "ok", err |-> "", val |-> None]]

WriteSelectAt(selection, dir, failing, done) ==
    /\ LET r == AnnDataSet_write_select(dset, selection, dir, failing, done)
       IN  dset' = [dset EXCEPT
                       !.phase = IF r.ok THEN "written" ELSE "write_failed",
                       !.out = [selection |-> selection, dir |-> dir, order |-> r.order,
                                fs |-> r.fs, written |-> r.written],
                       !.ret = [op |-> "write_select", res |-> IF r.ok THEN "ok" ELSE "err",
                                err |-> r.err, val |-> None]]
    /\ UNCHANGED <<dims, data, store, last, thr>>

\* The children of the dataset, by position
ChildPositions == 1..Len(dset.anndatas.elems)

\* write_select where every child writes
WriteSelect ==
    /\ dset.phase = "built"
    /\ \E selection \in WriteSelections(n_obs(dset), n_vars(dset)), dir \in OutputDirs :
          WriteSelectAt(selection, dir, {}, {})

\* write_select where the write of one child fails
WriteSelectFailing ==
    /\ dset.phase = "built"
    /\ \E selection \in WriteSelections(n_obs(dset), n_vars(dset)), dir \in OutputDirs,
          i \in ChildPositions :
          \E done \in SUBSET (ChildPositions \ {i}) :
              WriteSelectAt(selection, dir, {dset.anndatas.elems[i].key}, done)

NextWriteSelect == WriteSelect \/ WriteSelectFailing

\* AnnDataSet::write_select on the datasets over DatasetSizes
SpecWriteSelect == InitWriteSelect /\ [][NextWriteSelect]_vars

----------------------------------------------------------------------------
(* AnnDataSet::write_select: properties *)

\* The annotation file written by the last write_select
AnnotationOut == dset.out.fs[Path_join(dset.out.dir, "_dataset.h5ads")]

\* The file the last write_select gives the child at position i
ChildOutFile(i) ==
    Path_join(Path_join(dset.out.dir, "anndatas"), dset.anndatas.elems[i].key \o ".h5ad")

\* The rows of the children's written projections, concatenated in child
\* order
ChildrenOutRows ==
    Flatten([i \in 1..Len(dset.anndatas.elems) |->
                IF ChildOutFile(i) \in DOMAIN dset.out.fs
                THEN dset.out.fs[ChildOutFile(i)].rows ELSE <<>>])

\* write_select has succeeded and returned an order
WrittenReordered == dset.phase = "written" /\ dset.out.order # None

\* C14: when write_select succeeds on a row selection that split_select
\* gives a reordering map, row j of the annotation written is the same row of
\* the dataset as row j of the children's written projections concatenated
\* in child order, and the order returned is a permutation of
\* 0..|sel[0]|-1 with annotation row j = sel[0][order[j]]
C14_AnnotationAligned ==
    WrittenReordered =>
        LET order == dset.out.order[1]
            idx == to_vec(dset.out.selection[1])
        IN  /\ Len(order) = Len(idx)
            /\ {order[j] : j \in 1..Len(order)} = 0..(Len(idx) - 1)
            /\ AnnotationOut.rows = [j \in 1..Len(order) |-> idx[order[j] + 1]]
            /\ AnnotationOut.rows = ChildrenOutRows

\* A write that took rows of two children in an order that is neither the
\* children's nor its reverse
C14_Witness ==
    /\ WrittenReordered
    /\ dset.out.selection[1].idx = <<1, 2, 0>>
    /\ dset.anndatas.x.index = <<1, 2>>
    /\ dset.out.order[1] # <<0, 1, 2>>

\* The positions of the children that split_select gives a local selection
\* for the rows of the last write_select, in child order
ChildrenSelected ==
    LET slices == split_select(dset.anndatas.x.index, dset.out.selection[1]).slices
    IN  SelectSeq([i \in 1..Len(dset.anndatas.elems) |-> i],
                  LAMBDA i : (i - 1) \in DOMAIN slices)

\* The file_path uns["AnnDataSet"] holds for the child at position i after
\* the last write_select
ChildOutPath(i) ==
    IF is_absolute(Path_join(dset.out.dir, "anndatas")) THEN ChildOutFile(i)
    ELSE Path_join("anndatas", dset.anndatas.elems[i].key \o ".h5ad")

\* The files and the uns["AnnDataSet"] rows of the last write_select are
\* those of the children at the positions ps
WrittenFor(ps) ==
    /\ DOMAIN dset.out.fs =
           {Path_join(dset.out.dir, "_dataset.h5ads")} \cup {ChildOutFile(ps[j]) : j \in 1..Len(ps)}
    /\ AnnotationOut.uns =
           Some([j \in 1..Len(ps) |-> <<dset.anndatas.elems[ps[j]].key, ChildOutPath(ps[j])>>])

----------------------------------------------------------------------------
(* Index and DataFrameIndex *)

\* The three variants of Index
List(names) == [kind |-> "list", names |-> names, ivs |-> <<>>, start |-> 0, end |-> 0]
Intervals(ivs) == [kind |-> "intervals", names |-> <<>>, ivs |-> ivs, start |-> 0, end |-> 0]
Range(a, b) == [kind |-> "range", names |-> <<>>, ivs |-> <<>>, start |-> a, end |-> b]

Interval(a, b, size, step) == [start |-> a, end |-> b, size |-> size, step |-> step]

\* The names of one interval: name:s-e for every step from start below end
Interval_names(name, x) ==
    [k \in 1..((x.end - x.start + x.step - 1) \div x.step) |->
        LET s == x.start + (k - 1) * x.step
        IN  name \o ":" \o to_string(s) \o "-" \o to_string(s + x.size)]

\* Index::into_iter: the names of the index, in order
Index_into_vec(index) ==
    CASE index.kind = "list" -> index.names
      [] index.kind = "range" ->
            [k \in 1..(index.end - index.start) |-> to_string(index.start + k - 1)]
      [] OTHER ->
            Flatten([k \in 1..Len(index.ivs) |-> Interval_names(index.ivs[k][1], index.ivs[k][2])])

\* Index::len
Index_len(index) == Len(Index_into_vec(index))

\* struct DataFrameIndex
DataFrameIndex(index_name, index) == [index_name |-> index_name, index |-> index]

\* The index names given to a DataFrameIndex
IndexNames == {"index", "obs_names"}

\* The indexes written: lists of distinct names, ranges, and interval maps
ListIndexes == {List(v) : v \in {<<>>, <<"a">>, <<"b">>, <<"a", "b">>, <<"b", "a">>}}
RangeIndexes == {r \in {Range(a, b) : a \in 0..MaxDim, b \in 0..MaxDim} : r.start <= r.end}
IntervalValues == {Interval(0, b, 1, 1) : b \in 0..MaxDim} \cup {Interval(1, 5, 1, 2)}
IntervalIndexes ==
    {Intervals(<<<<"chr1", x>>>>) : x \in IntervalValues}
        \cup {Intervals(<<<<c[1], x>>, <<c[2], y>>>>) :
                 c \in {<<"chr1", "chr2">>, <<"chr2", "chr1">>},
                 x \in IntervalValues, y \in IntervalValues}
Indexes == ListIndexes \cup RangeIndexes \cup IntervalIndexes

\* The attributes of a dataset: index_type, names, intervals, start, end,
\* each present or not
NoAttrs == [index_type |-> None, names |-> None, intervals |-> None,
            start |-> None, end |-> None]

\* A string dataset with its attributes
Dataset(arr, attrs) == [data |-> arr, attrs |-> attrs]

\* A group: whether it exists, its "_index", "column-order" and
\* "encoding-type" attributes, and the objects in it by name
Group(index_attr, column_order, objs) ==
    [exists |-> TRUE, index_attr |-> index_attr, column_order |-> column_order,
     encoding_type |-> None, objs |-> objs]
NoGroup ==
    [exists |-> FALSE, index_attr |-> None, column_order |-> None, encoding_type |-> None,
     objs |-> EmptyMap]
EmptyGroup == Group(None, None, EmptyMap)

\* A plausible slip: size and step in each other's place
interval_row_swapped(x) == <<x.start, x.end, x.step, x.size>>

\* The row of the "intervals" attribute written for one interval
interval_row(x) == <<x.start, x.end, x.size, x.step>>

\* A plausible slip: the failure of an attribute handed to the caller
write_intervals_strict(attrs, ivs, names_fail, intervals_fail) ==
    IF names_fail \/ intervals_fail THEN [ok |-> FALSE, attrs |-> attrs]
    ELSE [ok |-> TRUE,
          attrs |-> [attrs EXCEPT !.names = Some([k \in 1..Len(ivs) |-> ivs[k][1]]),
                                  !.intervals = Some([k \in 1..Len(ivs) |-> interval_row(ivs[k][2])]),
                                  !.index_type = Some("intervals")]]

\* The Intervals arm of DataFrameIndex::overwrite: the attributes of the
\* index dataset afterwards.  The backend refuses "names" when names_fail
\* and "intervals" when intervals_fail; "intervals" is not tried once
\* "names" has failed
write_intervals(attrs, ivs, names_fail, intervals_fail) ==
    LET keys == [k \in 1..Len(ivs) |-> ivs[k][1]]
        values == [k \in 1..Len(ivs) |-> interval_row(ivs[k][2])]
    IN  IF names_fail
        THEN [ok |-> TRUE, attrs |-> [attrs EXCEPT !.index_type = Some("list")]]
        ELSE IF intervals_fail
        THEN [ok |-> TRUE,
              attrs |-> [attrs EXCEPT !.names = Some(keys), !.index_type = Some("list")]]
        ELSE [ok |-> TRUE,
              attrs |-> [attrs EXCEPT !.names = Some(keys), !.intervals = Some(values),
                                      !.index_type = Some("intervals")]]

\* DataFrameIndex::overwrite(container): the container afterwards.  The
\* dataset the old "_index" names is deleted, "_index" is set, and the names
\* are stored in a new dataset with the attributes of the variant
DataFrameIndex_overwrite(self, container, names_fail, intervals_fail) ==
    LET old == container.index_attr
        objs == IF old # None THEN Del(container.objs, old[1]) ELSE container.objs
        arr == Index_into_vec(self.index)
        w == write_intervals(NoAttrs, self.index.ivs, names_fail, intervals_fail)
        attrs == CASE self.index.kind = "list" -> [NoAttrs EXCEPT !.index_type = Some("list")]
                   [] self.index.kind = "range" ->
                         [NoAttrs EXCEPT !.index_type = Some("range"),
                                         !.start = Some(self.index.start),
                                         !.end = Some(self.index.end)]
                   [] OTHER -> w.attrs
    IN  IF self.index.kind = "intervals" /\ ~w.ok
        THEN [ok |-> FALSE, err |-> "new_array_attr",
              container |-> [container EXCEPT
                                !.objs = Put(objs, self.index_name, Dataset(arr, NoAttrs)),
                                !.index_attr = Some(self.index_name)]]
        ELSE [ok |-> TRUE, err |-> "",
              container |-> [container EXCEPT
                                !.objs = Put(objs, self.index_name, Dataset(arr, attrs)),
                                !.index_attr = Some(self.index_name)]]

\* DataFrameIndex::write(location, name): the group is opened, or made when
\* it does not exist, and overwritten
DataFrameIndex_write(self, container, names_fail, intervals_fail) ==
    DataFrameIndex_overwrite(self, IF container.exists THEN container ELSE EmptyGroup,
                             names_fail, intervals_fail)

\* DataFrameIndex::read(container)
DataFrameIndex_read(container) ==
    IF container.index_attr = None
    THEN [ok |-> FALSE, err |-> "_index", val |-> None]
    ELSE IF container.index_attr[1] \notin DOMAIN container.objs
    THEN [ok |-> FALSE, err |-> "open_dataset", val |-> None]
    ELSE
    LET index_name == container.index_attr[1]
        dataset == container.objs[index_name]
        a == dataset.attrs
        index_type == IF a.index_type = None THEN "list" ELSE a.index_type[1]
    IN  CASE index_type = "list" ->
               [ok |-> TRUE, err |-> "",
                val |-> Some(DataFrameIndex(index_name, List(dataset.data)))]
          [] index_type = "intervals" ->
               IF a.names = None \/ a.intervals = None
               THEN [ok |-> FALSE, err |-> "get_array_attr", val |-> None]
               ELSE LET n == IF Len(a.names[1]) < Len(a.intervals[1])
                             THEN Len(a.names[1]) ELSE Len(a.intervals[1])
                        row(k) == a.intervals[1][k]
                    IN  [ok |-> TRUE, err |-> "",
                         val |-> Some(DataFrameIndex("index",
                                     Intervals([k \in 1..n |->
                                         <<a.names[1][k],
                                           Interval(row(k)[1], row(k)[2], row(k)[3], row(k)[4])>>])))]
          [] index_type = "range" ->
               IF a.start = None \/ a.end = None
               THEN [ok |-> FALSE, err |-> "get_scalar_attr", val |-> None]
               ELSE [ok |-> TRUE, err |-> "",
                     val |-> Some(DataFrameIndex("index", Range(a.start[1], a.end[1])))]
          [] OTHER -> [ok |-> FALSE, err |-> "Unknown index type", val |-> None]

\* The containers read that another program wrote: an index dataset without
\* index_type, and one of a type this library does not know
ForeignTypes == {None, Some("multi")}
ForeignContainer(t) ==
    Group(Some("index"), None,
          Put(EmptyMap, "index", Dataset(<<"a", "b">>, [NoAttrs EXCEPT !.index_type = t])))

NoRet == [op |-> "none", res |-> "ok", err |-> "", val |-> None]

InitIndex ==
    /\ dims = [d \in DimNames |-> None]
    /\ data = [c \in Colls |-> EmptyMap]
    /\ store = [c \in Colls |-> EmptyMap]
    /\ last = Call("none", "none", "ok")
    /\ thr = NoThreads
    /\ \E container \in {NoGroup, EmptyGroup} \cup {ForeignContainer(t) : t \in ForeignTypes} :
          dset = [phase |-> "index", container |-> container, wrote |-> None,
                  fallback |-> FALSE, ret |-> NoRet]

\* What the backend does with the attributes of an interval index: whether
\* it refuses "names", and whether it refuses "intervals"
AttrFailures(index) ==
    IF index.kind = "intervals" THEN BOOLEAN \X BOOLEAN ELSE {<<FALSE, FALSE>>}

\* The state after a write of self that returned r, the backend having
\* refused the attributes in fails
IndexWritten(op, self, fails, r) ==
    /\ dset' = [dset EXCEPT
                    !.container = r.container,
                    !.wrote = Some(self),
                    !.fallback = fails[1] \/ fails[2],
                    !.ret = [op |-> op, res |-> IF r.ok THEN "ok" ELSE "err",
                             err |-> r.err, val |-> None]]
    /\ UNCHANGED <<dims, data, store, last, thr>>

\* DataFrameIndex::write
IndexWrite ==
    /\ dset.phase = "index"
    /\ \E index_name \in IndexNames, index \in Indexes :
          \E fails \in AttrFailures(index) :
              LET self == DataFrameIndex(index_name, index)
              IN  IndexWritten("write", self, fails,
                               DataFrameIndex_write(self, dset.container, fails[1], fails[2]))

\* DataFrameIndex::overwrite
IndexOverwrite ==
    /\ dset.phase = "index"
    /\ dset.container.exists
    /\ \E index_name \in IndexNames, index \in Indexes :
          \E fails \in AttrFailures(index) :
              LET self == DataFrameIndex(index_name, index)
              IN  IndexWritten("overwrite", self, fails,
                               DataFrameIndex_overwrite(self, dset.container, fails[1], fails[2]))

\* DataFrameIndex::read
IndexRead ==
    /\ dset.phase = "index"
    /\ dset.container.exists
    /\ LET r == DataFrameIndex_read(dset.container)
       IN  dset' = [dset EXCEPT !.ret = [op |-> "read", res |-> IF r.ok THEN "ok" ELSE "err",
                                         err |-> r.err, val |-> r.val]]
    /\ UNCHANGED <<dims, data, store, last, thr>>

NextIndex == IndexWrite \/ IndexOverwrite \/ IndexRead

\* DataFrameIndex written to and read from one container
SpecIndex == InitIndex /\ [][NextIndex]_vars

\* The last call was a read
IndexWasRead == dset.phase = "index" /\ dset.ret.op = "read"

\* The index dataset of the container
IndexDataset == dset.container.objs[dset.container.index_attr[1]]

\* C18: a read of what write or overwrite stored succeeds with an index of
\* the names of the original, in the same order and of the same length,
\* and, unless the interval write fell back to a list, with the original
\* index; an index dataset without index_type is read as the list of its
\* names, and one of an unknown index_type is an error
C18_IndexRoundTrip ==
    IndexWasRead =>
        /\ dset.wrote # None =>
              /\ dset.ret.res = "ok"
              /\ Index_into_vec(dset.ret.val[1].index) = Index_into_vec(dset.wrote[1].index)
              /\ Index_len(dset.ret.val[1].index) = Index_len(dset.wrote[1].index)
              /\ ~dset.fallback => dset.ret.val[1].index = dset.wrote[1].index
        /\ (dset.container.index_attr # None /\ IndexDataset.attrs.index_type = None) =>
              /\ dset.ret.res = "ok"
              /\ dset.ret.val[1].index = List(IndexDataset.data)
        /\ (dset.container.index_attr # None
               /\ IndexDataset.attrs.index_type = Some("multi")) =>
              dset.ret.res = "err"

\* A read of an index of two intervals, one of which steps over names
C18_Witness ==
    /\ IndexWasRead
    /\ dset.wrote # None
    /\ ~dset.fallback
    /\ dset.ret.val[1].index.kind = "intervals"
    /\ Index_into_vec(dset.ret.val[1].index) = <<"chr2:1-2", "chr2:3-4", "chr1:0-1">>

\* C19: a write of an interval index whose "names" or "intervals" attribute
\* the backend refuses returns no error and records index_type "list", and
\* the read that follows gives the list of the names of the interval index,
\* in order
C19_IntervalFallback ==
    (dset.phase = "index" /\ dset.wrote # None /\ dset.wrote[1].index.kind = "intervals") =>
        /\ dset.ret.op \in {"write", "overwrite"} =>
              /\ dset.ret.res = "ok"
              /\ dset.fallback => IndexDataset.attrs.index_type = Some("list")
        /\ (dset.ret.op = "read" /\ dset.fallback) =>
              /\ dset.ret.res = "ok"
              /\ dset.ret.val[1].index = List(Index_into_vec(dset.wrote[1].index))

\* A read after the backend stored "names" and refused "intervals"
C19_Witness ==
    /\ IndexWasRead
    /\ dset.fallback
    /\ IndexDataset.attrs.names # None
    /\ IndexDataset.attrs.intervals = None
    /\ dset.ret.val[1].index = List(<<"chr1:0-1", "chr1:1-2">>)

----------------------------------------------------------------------------
(* DataFrame *)

\* A DataFrame: its height and the names of its columns; a frame of no
\* column has height 0
Frame(height, columns) == [height |-> height, columns |-> columns]
ColumnNames == {<<>>, <<"x">>, <<"x", "y">>}
Frames ==
    {Frame(0, <<>>)} \cup {Frame(h, c) : h \in 0..MaxDim, c \in ColumnNames \ {<<>>}}

\* Index::from(n): the range of n rows
Index_from_height(n) == Range(0, n)

\* The columns of self before position stop stored in objs under their names
write_columns(objs, self, stop) ==
    [x \in (DOMAIN objs) \cup {self.columns[k] : k \in 1..(stop - 1)} |->
        IF \E k \in 1..(stop - 1) : self.columns[k] = x
        THEN Dataset(Repeat("v", self.height), NoAttrs) ELSE objs[x]]

\* Where the write of the columns stops: past the last column, or at the
\* column the backend fails to store
ColumnStops(self) == 1..(Len(self.columns) + 1)

\* DataFrame::write(location, name): the group afterwards; the backend fails
\* to store the column at position stop when there is one
DataFrame_write(self, container, stop) ==
    LET group == IF container.exists THEN container ELSE EmptyGroup
        g1 == [group EXCEPT !.encoding_type = Some("dataframe"),
                            !.column_order = Some(self.columns),
                            !.objs = write_columns(group.objs, self, stop)]
    IN  IF stop <= Len(self.columns)
        THEN [ok |-> FALSE, err |-> "write", container |-> g1]
        ELSE DataFrameIndex_overwrite(DataFrameIndex("index", Index_from_height(self.height)),
                                      g1, FALSE, FALSE)

\* A plausible slip: the index rewritten whatever the height
index_stale_always(n, nrows) == TRUE

\* DataFrame::overwrite: whether the index stored, of nrows rows, is replaced
\* for a frame of height n
index_stale(n, nrows) == n # 0 /\ n # nrows

\* DataFrame::overwrite(container)
DataFrame_overwrite(self, container, stop) ==
    LET old == container.index_attr
        n == self.height
        new_index == DataFrameIndex("index", Index_from_height(n))
        kept == [container EXCEPT
                    !.objs = [x \in (DOMAIN container.objs) \cap {old[1]} |-> container.objs[x]]]
        c1 == IF old # None
              THEN IF index_stale(n, Len(kept.objs[old[1]].data))
                   THEN DataFrameIndex_overwrite(new_index, kept, FALSE, FALSE).container
                   ELSE kept
              ELSE DataFrameIndex_overwrite(new_index, [container EXCEPT !.objs = EmptyMap],
                                            FALSE, FALSE).container
        c2 == [c1 EXCEPT !.column_order = Some(self.columns),
                         !.objs = write_columns(c1.objs, self, stop)]
    IN  IF stop <= Len(self.columns)
        THEN [ok |-> FALSE, err |-> "write", container |-> c2]
        ELSE [ok |-> TRUE, err |-> "",
              container |-> [c2 EXCEPT !.encoding_type = Some("dataframe")]]

\* DataFrame::get_shape
get_shape(container) ==
    IF container.index_attr = None \/ container.column_order = None
    THEN [ok |-> FALSE, val |-> <<>>]
    ELSE [ok |-> TRUE,
          val |-> <<Len(container.objs[container.index_attr[1]].data),
                    Len(container.column_order[1])>>]

InitFrame ==
    /\ dims = [d \in DimNames |-> None]
    /\ data = [c \in Colls |-> EmptyMap]
    /\ store = [c \in Colls |-> EmptyMap]
    /\ last = Call("none", "none", "ok")
    /\ thr = NoThreads
    /\ \E container \in {NoGroup, EmptyGroup} :
          dset = [phase |-> "frame", container |-> container, wrote |-> None, ret |-> NoRet]

\* The state after a write of self that returned r
FrameWritten(op, self, r) ==
    /\ dset' = [dset EXCEPT
                    !.container = r.container,
                    !.wrote = Some(self),
                    !.ret = [op |-> op, res |-> IF r.ok THEN "ok" ELSE "err",
                             err |-> r.err, val |-> None]]
    /\ UNCHANGED <<dims, data, store, last, thr>>

\* DataFrame::write
FrameWrite ==
    /\ dset.phase = "frame"
    /\ \E self \in Frames :
          \E stop \in ColumnStops(self) :
              FrameWritten("frame_write", self, DataFrame_write(self, dset.container, stop))

\* DataFrame::overwrite
FrameOverwrite ==
    /\ dset.phase = "frame"
    /\ dset.container.exists
    /\ \E self \in Frames :
          \E stop \in ColumnStops(self) :
              FrameWritten("frame_overwrite", self,
                           DataFrame_overwrite(self, dset.container, stop))

NextFrame == FrameWrite \/ FrameOverwrite

\* DataFrames written to one container
SpecFrame == InitFrame /\ [][NextFrame]_vars

\* The last call stored a frame
FrameStored ==
    dset.phase = "frame" /\ dset.ret.op \in {"frame_write", "frame_overwrite"} /\ dset.ret.res = "ok"

\* The row count get_shape reports
StoredRows == get_shape(dset.container).val[1]

\* C20, as stated: after every write or overwrite of a frame, the stored
\* index has as many rows as the frame has, whatever its height
C20_IndexLenIsHeight == FrameStored => StoredRows = dset.wrote[1].height

\* C20, as the code has it: after a write of a frame, and after an overwrite
\* of a frame of height other than 0 or of a container without "_index", the
\* stored index has as many rows as the frame has; an overwrite of a frame of
\* height 0 on a container with "_index" leaves the stored index as it was
C20_IndexLenFollowsHeight ==
    [][FrameStored' =>
          LET h == dset'.wrote[1].height
              keeps == /\ dset'.ret.op = "frame_overwrite"
                       /\ h = 0
                       /\ dset.container.index_attr # None
          IN  get_shape(dset'.container).val[1] =
                  IF keeps THEN Len(dset.container.objs[dset.container.index_attr[1]].data)
                  ELSE h]_vars

\* An overwrite by a frame of no rows over an index of two
C20_Witness ==
    /\ FrameStored
    /\ dset.ret.op = "frame_overwrite"
    /\ dset.wrote[1] = Frame(0, <<"x">>)
    /\ StoredRows = 2

----------------------------------------------------------------------------
(* AxisArrays::export and export_select *)

\* SelectInfoElem::is_full on every element of a selection
AllFull(sel) == \A i \in 1..Len(sel) : sel[i].full

\* The destination of an export: no group yet
NoDestination == [phase |-> "export", dest |-> None]

\* What an export leaves at the destination and what it returns
Exported(dest, res) == [dest |-> dest, res |-> res]

\* InnerAxisArrays::export: the set of outcomes.  new_mapping makes the
\* group; the elements are exported in the map's iteration order, and
\* inner() on an emptied slot panics with the elements before it exported
export(c) ==
    LET ks == DOMAIN data[c]
        bad == {k \in ks : data[c][k] = None}
        copy(S) == [k \in S |-> data[c][k][1]]
    IN  IF bad = {}
        THEN {Exported(Some(copy(ks)), "ok")}
        ELSE {Exported(Some(copy(S)), "panic") : S \in SUBSET (ks \ bad)}

\* InnerAxisArrays::export_select: the set of outcomes.  A selection that is
\* full on every dimension is exported whole, whatever its length; for any
\* other selection new_mapping makes the group before the number of
\* dimensions is checked
export_select(c, sel) ==
    IF AllFull(sel) THEN export(c)
    ELSE IF Len(sel) # SelDims(c)
    THEN {Exported(Some(EmptyMap), "err")}
    ELSE
    LET es == ElemSel(c, sel)
        ks == DOMAIN data[c]
        bad == {k \in ks : \/ data[c][k] = None
                           \/ ~SelInBounds(es[1], data[c][k][1][1])
                           \/ ~SelInBounds(es[2], data[c][k][1][2])}
        copy(S) == [k \in S |-> SubShape(data[c][k][1], es)]
    IN  IF bad = {}
        THEN {Exported(Some(copy(ks)), "ok")}
        ELSE {Exported(Some(copy(S)), IF data[c][b] = None THEN "panic" ELSE "err") :
                 S \in SUBSET (ks \ bad), b \in bad}

\* The selections handed to export_select and subset: of one or two
\* dimensions, whatever the axis kind; and the selection of no dimension
AnySelections == Selections \cup {<<>>}

InitExport ==
    /\ dims = [d \in DimNames |-> None]
    /\ data = [c \in Colls |-> EmptyMap]
    /\ store = [c \in Colls |-> EmptyMap]
    /\ last = Call("new", "-", "ok")
    /\ thr = NoThreads
    /\ dset = NoDestination

ExportSelectAt(c, sel) ==
    /\ dset = NoDestination
    /\ \E o \in export_select(c, sel) :
          /\ dset' = [dset EXCEPT !.dest = o.dest]
          /\ last' = Call("export_select", c, o.res)
    /\ UNCHANGED <<dims, data, store, thr>>

\* export_select into a group that does not exist yet
ExportSelect == \E c \in Colls, sel \in AnySelections : ExportSelectAt(c, sel)

\* The collections are filled before anything is exported
Filling == dset = NoDestination

\* subset with a selection of the wrong number of dimensions
SubsetMismatch ==
    /\ Filling
    /\ \E c \in Colls, sel \in AnySelections : Len(sel) # SelDims(c) /\ SubsetAt(c, sel)

NextExport ==
    \/ Filling /\ AddData
    \/ Filling /\ AddDataFromIter
    \/ Filling /\ RemoveData
    \/ SubsetMismatch
    \/ ExportSelect

\* add_data, add_data_from_iter and remove_data, then one export_select
SpecExport == InitExport /\ [][NextExport]_vars

\* The selection has the wrong number of dimensions for collection c
Mismatch(c, sel) == Len(sel) # SelDims(c)

\* C21: export_select and subset return an error for every selection whose
\* number of dimensions does not match the axis kind; subset then changes no
\* element and no Dim, and export_select creates nothing at the destination
C21_MismatchRejected ==
    [][\A c \in Colls, sel \in AnySelections :
         Mismatch(c, sel) =>
            /\ ExportSelectAt(c, sel) => (last'.res = "err" /\ dset'.dest = None)
            /\ SubsetAt(c, sel) =>
                  (last'.res = "err" /\ data' = data /\ store' = store /\ dims' = dims)]_vars

\* export_select returned an error and left an empty group
C21_EmptyGroupLeft ==
    /\ last = Call("export_select", "layers", "err")
    /\ dset.dest = Some(EmptyMap)
    /\ data["layers"] # EmptyMap

----------------------------------------------------------------------------
(* AnnDataSet::write_select: a child that fails to write *)

\* The last write_select returned the error of a child's write
ChildWriteFailed == dset.phase = "write_failed" /\ dset.ret.err = "write"

\* C22: when the write of a child's projection fails, write_select returns
\* an error, the files of the children whose writes succeeded are on disk,
\* and _dataset.h5ads is not written, with or without its uns["AnnDataSet"]
C22_NoRollbackNoAnnotation ==
    ChildWriteFailed =>
        /\ dset.ret.res = "err"
        /\ DOMAIN dset.out.fs = {ChildOutFile(i) : i \in dset.out.written}
        /\ \A i \in dset.out.written : dset.out.fs[ChildOutFile(i)].uns = None
        /\ Path_join(dset.out.dir, "_dataset.h5ads") \notin DOMAIN dset.out.fs

\* The write of the second of three children failed after the other two had
\* written
C22_Witness ==
    /\ ChildWriteFailed
    /\ Len(dset.anndatas.elems) = 3
    /\ dset.out.written = {1, 3}
    /\ DOMAIN dset.out.fs = {"out/anndatas/a.h5ad", "out/anndatas/c.h5ad"}

----------------------------------------------------------------------------
(* add_data and add_data_from_iter, statement by statement.  One caller     *)
(* makes one call after the other; thr holds the call being made: its       *)
(* arguments, the statement it has reached, whether its validation against  *)
(* the Dims has succeeded yet, and what it returned.                        *)

NoCall ==
    [op |-> "none", c |-> "obsm", key |-> "A", sh |-> <<1, 1>>, pc |-> "done",
     validated |-> FALSE, res |-> "-"]

InitOrder ==
    /\ dims = [d \in DimNames |-> None]
    /\ data = [c \in Colls |-> EmptyMap]
    /\ store = [c \in Colls |-> EmptyMap]
    /\ last = Call("new", "-", "ok")
    /\ thr = NoCall
    /\ dset = NoDataset

\* The call returns res
Return(res) == thr' = [thr EXCEPT !.pc = "done", !.res = res]

\* The call goes on to the statement pc
Reach(pc) == thr' = [thr EXCEPT !.pc = pc]

\* The caller enters add_data or add_data_from_iter
Enter ==
    /\ thr.pc = "done"
    /\ \E op \in {"add_data", "add_data_from_iter"}, c \in Colls, sh \in Shapes :
          \E key \in KeysOf(c) :
              thr' = [op |-> op, c |-> c, key |-> key, sh |-> sh,
                      pc |-> IF op = "add_data" THEN "check" ELSE "clear",
                      validated |-> FALSE, res |-> "-"]
    /\ UNCHANGED <<dims, data, store, last, dset>>

\* A plausible slip: the result of the validation dropped
Validate_ignored ==
    LET v == IF thr.op = "add_data" THEN add_data_check(thr.c, thr.sh, dims)
             ELSE add_data_from_iter_check(thr.c, thr.sh, dims)
    IN  /\ thr.pc = "check"
        /\ dims' = v.dims
        /\ Reach(IF thr.op = "add_data" THEN "write" ELSE "insert")
        /\ UNCHANGED <<data, store, last, dset>>

\* The match on self.axis of either call: the shape validated against the
\* Dims.  add_data returns the error; add_data_from_iter goes on to clear
\* the element it wrote
Validate ==
    LET v == IF thr.op = "add_data" THEN add_data_check(thr.c, thr.sh, dims)
             ELSE add_data_from_iter_check(thr.c, thr.sh, dims)
    IN  /\ thr.pc = "check"
        /\ dims' = v.dims
        /\ IF v.ok
           THEN thr' = [thr EXCEPT !.validated = TRUE,
                                   !.pc = IF thr.op = "add_data" THEN "write" ELSE "insert"]
           ELSE IF thr.op = "add_data" THEN Return("err") ELSE Reach("cleanup")
        /\ UNCHANGED <<data, store, last, dset>>

\* add_data, match self.get_mut(key): data.write for a new key, and
\* elem.inner().save(data) for a key of the map
Write ==
    /\ thr.pc = "write"
    /\ IF thr.key \notin DOMAIN data[thr.c]
       THEN /\ store' = [store EXCEPT ![thr.c] = Put(store[thr.c], thr.key, thr.sh)]
            /\ Reach("insert")
            /\ UNCHANGED data
       ELSE IF Slot_inner_panics(data[thr.c][thr.key])
       THEN Return("panic") /\ UNCHANGED <<data, store>>
       ELSE /\ store' = [store EXCEPT ![thr.c] = Put(store[thr.c], thr.key, thr.sh)]
            /\ data' = [data EXCEPT ![thr.c] = Put(data[thr.c], thr.key, Some(thr.sh))]
            /\ Return("ok")
    /\ UNCHANGED <<dims, last, dset>>

\* add_data_from_iter: elem.clear() on the element the map holds under key
ClearOld ==
    /\ thr.pc = "clear"
    /\ IF thr.key \in DOMAIN data[thr.c]
       THEN /\ store' = [store EXCEPT
                            ![thr.c] = Elem_clear(store[thr.c], thr.key, data[thr.c][thr.key])]
            /\ data' = [data EXCEPT ![thr.c][thr.key] = None]
       ELSE UNCHANGED <<data, store>>
    /\ Reach("write_by_chunk")
    /\ UNCHANGED <<dims, last, dset>>

\* add_data_from_iter: ArrayChunk::write_by_chunk(data, &self.container, key)
WriteByChunk ==
    /\ thr.pc = "write_by_chunk"
    /\ store' = [store EXCEPT ![thr.c] = Put(store[thr.c], thr.key, thr.sh)]
    /\ Reach("check")
    /\ UNCHANGED <<dims, data, last, dset>>

\* add_data_from_iter, the error arms: elem.clear() and bail!
Cleanup ==
    /\ thr.pc = "cleanup"
    /\ store' = [store EXCEPT ![thr.c] = Elem_clear(store[thr.c], thr.key, Some(thr.sh))]
    /\ Return("err")
    /\ UNCHANGED <<dims, data, last, dset>>

\* self.insert(key, elem) of either call
Insert ==
    /\ thr.pc = "insert"
    /\ data' = [data EXCEPT ![thr.c] = Put(data[thr.c], thr.key, Some(thr.sh))]
    /\ Return("ok")
    /\ UNCHANGED <<dims, store, last, dset>>

NextOrder == Enter \/ Validate \/ Write \/ ClearOld \/ WriteByChunk \/ Cleanup \/ Insert

\* add_data and add_data_from_iter called one after the other
SpecOrder == InitOrder /\ [][NextOrder]_vars

\* This step stores an object under the key of the call
WritesBackend ==
    /\ store' # store
    /\ thr.key \in DOMAIN store'[thr.c]

\* This step installs the handle of the call in the map
InstallsHandle ==
    /\ data' # data
    /\ thr.key \in DOMAIN data'[thr.c]
    /\ data'[thr.c][thr.key] = Some(thr.sh)

\* C23, as stated: no step of add_data or add_data_from_iter writes to the
\* backend before the validation of the call has succeeded, and none
\* installs the handle before the backend write
C23_ValidateWriteInstall ==
    [][/\ WritesBackend => thr.validated
       /\ InstallsHandle => (thr.validated /\ store'[thr.c][thr.key] = thr.sh)]_vars

\* C23, as the code has it: add_data writes to the backend only once its
\* validation has succeeded; add_data_from_iter deletes the element already
\* under the key and writes the chunks before it validates, and deletes what
\* it wrote when the validation fails; both install the handle only after
\* the validation has succeeded and the object is in the backend
C23_ValidateBeforeInstall ==
    [][/\ (WritesBackend /\ thr.op = "add_data") => thr.validated
       /\ (WritesBackend /\ thr.op = "add_data_from_iter") =>
              (~thr.validated /\ thr.pc = "write_by_chunk")
       /\ InstallsHandle => (thr.validated /\ store'[thr.c][thr.key] = thr.sh)
       /\ (thr'.pc = "done" /\ thr'.res = "err" /\ thr.op = "add_data_from_iter") =>
              thr.key \notin DOMAIN store'[thr.c]]_vars

\* add_data_from_iter has written its chunks over a key the map held and is
\* about to validate a shape the Dims refuse
C23_Witness ==
    /\ thr.op = "add_data_from_iter"
    /\ thr.pc = "check"
    /\ thr.key \in DOMAIN data[thr.c]
    /\ store[thr.c][thr.key] = thr.sh
    /\ ~add_data_from_iter_check(thr.c, thr.sh, dims).ok

----------------------------------------------------------------------------
(* subset while another thread holds the lock of a Dim.  thr.held is the    *)
(* set of Dims whose mutex another thread holds; dset.sel is the selection  *)
(* of the last subset.                                                      *)

\* The SelectInfoElems handed to subset in this scenario
TrySelElems == {FullSel} \cup {[full |-> FALSE, idx |-> v] : v \in {<<>>, <<0>>}}

TrySelections(c) ==
    IF SelDims(c) = 1 THEN {<<e>> : e \in TrySelElems}
    ELSE {<<e, f>> : e \in TrySelElems, f \in TrySelElems}

\* Three collections of one element each over Dims that hold its shape
InitLocked ==
    /\ \E sh \in Shapes :
          /\ dims = [d \in DimNames |-> IF d = "n_obs" THEN Some(sh[1]) ELSE Some(sh[2])]
          /\ data = [c \in Colls |->
                        Put(EmptyMap, "A", Some(IF axis(c) = "Pairwise" THEN <<sh[1], sh[1]>> ELSE sh))]
          /\ store = [c \in Colls |->
                         Put(EmptyMap, "A", IF axis(c) = "Pairwise" THEN <<sh[1], sh[1]>> ELSE sh)]
    /\ last = Call("new", "-", "ok")
    /\ thr = [held |-> {}]
    /\ dset = [phase |-> "locked", sel |-> <<FullSel>>]

\* Dim::lock by another thread
DimLockTaken ==
    /\ \E d \in DimNames \ thr.held : thr' = [thr EXCEPT !.held = thr.held \cup {d}]
    /\ UNCHANGED <<dims, data, store, last, dset>>

\* The lock holder sets the Dim with DimLock::set, to a new value or to the
\* one it holds, and drops the guard
DimLockDropped ==
    /\ \E d \in thr.held :
          /\ thr' = [thr EXCEPT !.held = thr.held \ {d}]
          /\ \E n \in 0..MaxDim :
                dims' = [dims EXCEPT ![d] = DimLock_set(dims[d], n)]
    /\ UNCHANGED <<data, store, last, dset>>

SubsetTryAt(c, sel) ==
    /\ \E o \in subset_try(c, sel, thr.held) :
          /\ dims' = o.dims
          /\ data' = [data EXCEPT ![c] = o.data]
          /\ store' = [store EXCEPT ![c] = o.store]
          /\ last' = Call("subset", c, o.res)
    /\ dset' = [dset EXCEPT !.sel = sel]
    /\ UNCHANGED thr

\* InnerAxisArrays::subset, whoever holds the locks
SubsetTry == \E c \in Colls : \E sel \in TrySelections(c) : SubsetTryAt(c, sel)

NextLocked == DimLockTaken \/ DimLockDropped \/ SubsetTry

SpecLocked == InitLocked /\ [][NextLocked]_vars

\* The element of c under k is what subset(sel) makes of it
Rewritten(c, k, sel) ==
    /\ data'[c][k] = Some(SubShape(data[c][k][1], ElemSel(c, sel)))
    /\ store'[c][k] = SubShape(store[c][k], ElemSel(c, sel))

\* The selection that subset on c applies to Dim d
SelOf(c, d, sel) == IF d = dim1(c) THEN sel[1] ELSE sel[2]

\* The selection fits every element of c
Fits(c, sel) ==
    \A k \in DOMAIN data[c] :
        /\ SelInBounds(ElemSel(c, sel)[1], data[c][k][1][1])
        /\ SelInBounds(ElemSel(c, sel)[2], data[c][k][1][2])

\* C24: subset does not wait for a Dim another thread holds: a subset whose
\* selection fits returns Ok with every element rewritten, every Dim of the
\* collection whose lock is free set to the length of its selection, and
\* every Dim whose lock is held left as it was; no subset changes a Dim
\* whose lock is held
C24_SubsetSkipsHeldDims ==
    [][(thr' = thr /\ last'.op = "subset") =>
          LET c == last'.c
              sel == dset'.sel
          IN  /\ \A d \in thr.held : dims'[d] = dims[d]
              /\ Fits(c, sel) => last'.res = "ok"
              /\ last'.res = "ok" =>
                    /\ \A k \in DOMAIN data[c] : Rewritten(c, k, sel)
                    /\ \A d \in DimsOf(c) \ thr.held :
                          dims'[d] = Some(SelLen(SelOf(c, d, sel), DimLock_get(dims[d])))]_vars

\* subset on the RowColumn collection returned Ok while another thread held
\* n_obs: the rows of its element are gone, n_vars follows the selection and
\* n_obs does not
C24_Witness ==
    /\ dset.phase = "locked"
    /\ last = Call("subset", "layers", "ok")
    /\ thr.held = {"n_obs"}
    /\ data["layers"]["A"] = Some(<<0, 1>>)
    /\ dims["n_obs"] = Some(2)
    /\ dims["n_vars"] = Some(1)

\* A subset step that returned Ok while no other thread held a Dim lock
SubsetOkUnlocked == thr' = thr /\ last'.op = "subset" /\ last'.res = "ok" /\ thr.held = {}

\* Every Dim of the collection subset was called on holds the number of
\* indices its selection picks out of the value it held
DimsFollowSelection ==
    \A d \in DimsOf(last'.c) :
        dims'[d] = Some(SelLen(SelOf(last'.c, d, dset'.sel), DimLock_get(dims[d])))

\* The elements of collection c satisfy its axis contract
ContractKept(c) == \A k \in DOMAIN data[c] : AxisContract(c, data[c][k][1])

\* C25, as stated: after subset returns Ok with no Dim lock held, the Dims
\* of the collection hold the number of indices their selections pick out
\* of the values held before, and every element of the collection and of
\* every other AxisArrays sharing the Dims satisfies its axis contract
\* against the new values
C25_SubsetKeepsAllContracts ==
    [][SubsetOkUnlocked => (DimsFollowSelection /\ \A c \in Colls : ContractKept(c)')]_vars

\* C25, as the code has it: after subset returns Ok with no Dim lock held,
\* the Dims of the collection hold the number of indices their selections
\* pick out of the values held before, and the elements of that collection
\* satisfy its axis contract against the new values if they satisfied it
\* against the old ones; the elements of the other collections are left as
\* they were
C25_SubsetKeepsOwnContract ==
    [][SubsetOkUnlocked =>
          /\ DimsFollowSelection
          /\ \A c \in Colls : (c = last'.c /\ ContractKept(c)) => ContractKept(c)'
          /\ \A c \in Colls \ {last'.c} : data'[c] = data[c] /\ store'[c] = store[c]]_vars

\* subset on the Row collection kept one row of two: its element follows
\* n_obs, and the elements of the other two collections no longer do
C25_Witness ==
    /\ dset.phase = "locked"
    /\ last = Call("subset", "obsm", "ok")
    /\ thr.held = {}
    /\ dims["n_obs"] = Some(1)
    /\ ContractKept("obsm")
    /\ data["obsp"]["A"] = Some(<<2, 2>>)
    /\ data["layers"]["A"][1][1] = 2

----------------------------------------------------------------------------
(* Failed calls of add_data and add_data_from_iter *)

\* C26: a call of add_data or add_data_from_iter that returns an error
\* leaves every shared Dim as it was before the call; on the RowColumn
\* collection a call refused over one dimension does not set the other Dim
C26_FailedAddKeepsDims ==
    [][(last'.op \in {"add_data", "add_data_from_iter"} /\ last'.res = "err") =>
          dims' = dims]_vars

\* C27: after any sequence of add_data, add_data_from_iter and remove_data
\* calls, failed ones included, every key present in a collection maps to
\* an element that is not cleared and whose backing object exists
C27_PresentKeysAreFilled ==
    \A c \in Colls : \A k \in DOMAIN data[c] :
        /\ data[c][k] # None
        /\ k \in DOMAIN store[c]

\* C28: when AnnDataSet.open returns an error, because a child file cannot
\* be opened or because stacking the children fails, the uns["AnnDataSet"]
\* frame stored in the annotation file is the one stored before the call,
\* with or without overrides
C28_FailedOpenKeepsFrame ==
    [][(Open /\ dset'.ret.res = "err") => dset'.uns = dset.uns]_vars

----------------------------------------------------------------------------
(* ElemCollection::clear and AxisArrays::clear, statement by statement, next
   to a second thread that works on a clone of the same handle.  The handle
   is a Slot: a mutex around an optional inner collection.  The guard taken
   by self.0.lock() in clear is a temporary of the first statement and is
   released at its end; self.0.drop() takes the mutex again. *)

\* The calls the two threads make between them
MaxCalls == 3

\* No thread holds the Slot's mutex
Unlocked == None

\* A thread between two calls
Idle(res) == [op |-> "none", pc |-> "idle", found |-> "none", res |-> res]

\* ElemCollection::new / ElemCollection::empty: a filled Slot over an
\* existing backing group, or an empty Slot
InitClear ==
    /\ dims = [d \in DimNames |-> None]
    /\ data = [c \in Colls |-> EmptyMap]
    /\ store = [c \in Colls |-> EmptyMap]
    /\ last = Call("none", "none", "ok")
    /\ thr = [t \in Threads |-> Idle("ok")]
    /\ dset \in {[phase |-> "clear", slot |-> s, group |-> s = "filled",
                  mutex |-> Unlocked, calls |-> 0] : s \in {"filled", "empty"}}

\* A thread calls clear or get_item on its clone of the handle
CallEnter(t, op) ==
    /\ dset.phase = "clear"
    /\ thr[t].pc = "idle"
    /\ dset.calls < MaxCalls
    /\ thr' = [thr EXCEPT ![t] = [op |-> op, pc |-> "lock", found |-> "none", res |-> "none"]]
    /\ dset' = [dset EXCEPT !.calls = @ + 1]
    /\ UNCHANGED <<dims, data, store, last>>

\* Slot::lock: the thread takes the mutex and sees what the Slot holds
Slot_lock(t) ==
    /\ dset.phase = "clear"
    /\ thr[t].pc = "lock"
    /\ dset.mutex = Unlocked
    /\ dset' = [dset EXCEPT !.mutex = Some(t)]
    /\ thr' = [thr EXCEPT ![t].pc = "locked", ![t].found = dset.slot]
    /\ UNCHANGED <<dims, data, store, last>>

\* The first statement of clear, under the guard: a filled Slot has its
\* backing group deleted, and a failing delete returns the error; the guard
\* is released at the end of the statement
delete_group(t, fails) ==
    IF dset.slot = "filled" /\ fails
    THEN /\ thr' = [thr EXCEPT ![t] = Idle("err")]
         /\ dset' = [dset EXCEPT !.mutex = Unlocked]
    ELSE /\ thr' = [thr EXCEPT ![t].pc = "drop"]
         /\ dset' = [dset EXCEPT !.mutex = Unlocked,
                                 !.group = IF dset.slot = "filled" THEN FALSE ELSE @]

ClearDelete(t) ==
    /\ dset.phase = "clear"
    /\ thr[t].pc = "locked"
    /\ thr[t].op = "clear"
    /\ \E fails \in BOOLEAN : delete_group(t, fails)
    /\ UNCHANGED <<dims, data, store, last>>

\* Slot::drop and the return of clear: the mutex is taken again, the Slot
\* emptied
Slot_drop(t) ==
    /\ dset.phase = "clear"
    /\ thr[t].pc = "drop"
    /\ dset.mutex = Unlocked
    /\ dset' = [dset EXCEPT !.slot = "empty"]
    /\ thr' = [thr EXCEPT ![t] = [Idle("ok") EXCEPT !.found = thr[t].found]]
    /\ UNCHANGED <<dims, data, store, last>>

\* get_item under the guard: an element of a filled collection is read from
\* the backing group, which fails when the group is gone
get_item(t) ==
    /\ dset.phase = "clear"
    /\ thr[t].pc = "locked"
    /\ thr[t].op = "get_item"
    /\ thr' = [thr EXCEPT ![t] = [Idle(IF dset.slot = "filled" /\ ~dset.group
                                       THEN "err" ELSE "ok")
                                   EXCEPT !.found = thr[t].found]]
    /\ dset' = [dset EXCEPT !.mutex = Unlocked]
    /\ UNCHANGED <<dims, data, store, last>>

NextClear ==
    \/ \E t \in Threads : CallEnter(t, "clear")
    \/ \E t \in Threads : CallEnter(t, "get_item")
    \/ \E t \in Threads : Slot_lock(t)
    \/ \E t \in Threads : ClearDelete(t)
    \/ \E t \in Threads : Slot_drop(t)
    \/ \E t \in Threads : get_item(t)

\* Two threads calling clear and get_item on one collection handle
SpecClear == InitClear /\ [][NextClear]_vars

\* No thread holds the lock over a collection that is still filled while
\* its backing group has been deleted
ClearIsAtomic ==
    dset.mutex # Unlocked => ~(dset.slot = "filled" /\ ~dset.group)

\* A clear that returns an error found the collection filled and leaves it
\* filled
FailedClearKeepsFilled ==
    [][\A t \in Threads :
         (thr[t].op = "clear" /\ thr'[t].pc = "idle" /\ thr'[t].res = "err") =>
            /\ thr[t].found = "filled"
            /\ dset'.slot = "filled"
            /\ dset'.group = dset.group]_vars

\* A clear that finds the collection empty returns Ok and changes nothing
SecondClearIsNoOp ==
    [][\A t \in Threads :
         (thr[t].op = "clear" /\ thr[t].found = "empty" /\ thr[t].pc # "idle") =>
            /\ dset'.slot = "empty"
            /\ dset'.group = dset.group
            /\ thr'[t].res \in {"none", "ok"}]_vars

\* C29: clear is atomic with respect to the other operations on the same
\* collection handle: no thread acquires the collection's lock and finds the
\* collection filled after clear has deleted the backing group; a failing
\* backend delete makes clear return the error with the collection still
\* filled; a second clear after a successful one is a no-op returning Ok
C29_ClearAtomic ==
    /\ []ClearIsAtomic
    /\ FailedClearKeepsFilled
    /\ SecondClearIsNoOp

----------------------------------------------------------------------------
(* The name of a DataFrameIndex over a write and a read *)

\* C30: a DataFrameIndex written with index_name s and read back has
\* index_name s, for the list, the intervals and the range variant
C30_IndexNameRoundTrip ==
    (IndexWasRead /\ dset.wrote # None /\ dset.ret.res = "ok") =>
        dset.ret.val[1].index_name = dset.wrote[1].index_name

====
